---- MODULE Spec2Model ----
(***************************************************************************)
(* A model of the hub75-framebuffer crate: the latched (8-bit word)        *)
(* DmaFrameBuffer of src/src/latched.rs and the tiling remapper of         *)
(* src/src/tiling.rs.                                                      *)
(*                                                                         *)
(* A word (Address or Entry) is its u8 value, 0..255.  A Row is a record   *)
(* [data, address] of 0-based arrays, a Frame an array of NROWS rows and   *)
(* the buffer an array of FRAME_COUNT frames.  A panic of the program      *)
(* (an array index out of bounds) is the fault flag.                       *)
(***************************************************************************)
EXTENDS Integers, Sequences, FiniteSets, TLC

VARIABLES
    cfg,      \* the build of the buffer: ROWS, COLS, NROWS, BITS, FRAME_COUNT, cargo features
    frames,   \* DmaFrameBuffer.frames
    hist,     \* the operations performed since new(), each with the frames it found
    fault,    \* TRUE once an operation has panicked
    tcfg,     \* the build of the remapper: PANEL_ROWS, PANEL_COLS, TILE_ROWS, TILE_COLS
    vpt,      \* the virtual point(s) last handed to remap_xy or to the tiling layer
    ppt,      \* what the remapper returned for it (them)
    hits,     \* the physical points a raster scan of the virtual canvas has produced
    call,     \* the last call of a function that returns a value: [fn, args, value]
    pending   \* the word stores the operation in progress has still to make

bufvars == <<cfg, frames, hist, fault, pending>>
tilevars == <<tcfg, vpt, ppt, hits>>
vars == <<cfg, frames, hist, fault, tcfg, vpt, ppt, hits, call, pending>>

----------------------------------------------------------------------------
(* Bounds of the model. *)

\* Operations performed on one buffer after new().
MaxOps == 2

\* Longest pixel sequence handed to draw_iter.
MaxPixels == 2

----------------------------------------------------------------------------
(* u8 arithmetic. *)

\* bit i of a, as 0 or 1
bitv(a, i) == (a \div (2 ^ i)) % 2

\* bit i of a | b, as 0 or 1
orv(a, b, i) == IF bitv(a, i) = 1 \/ bitv(b, i) = 1 THEN 1 ELSE 0

\* a & b on u8
and8(a, b) ==
    bitv(a, 0) * bitv(b, 0) + 2 * bitv(a, 1) * bitv(b, 1) + 4 * bitv(a, 2) * bitv(b, 2)
    + 8 * bitv(a, 3) * bitv(b, 3) + 16 * bitv(a, 4) * bitv(b, 4) + 32 * bitv(a, 5) * bitv(b, 5)
    + 64 * bitv(a, 6) * bitv(b, 6) + 128 * bitv(a, 7) * bitv(b, 7)

\* a | b on u8
or8(a, b) ==
    orv(a, b, 0) + 2 * orv(a, b, 1) + 4 * orv(a, b, 2) + 8 * orv(a, b, 3)
    + 16 * orv(a, b, 4) + 32 * orv(a, b, 5) + 64 * orv(a, b, 6) + 128 * orv(a, b, 7)

\* !a on a u8
not8(a) == 255 - a
\* a << k on a u8
shl8(a, k) == (a * (2 ^ k)) % 256
\* bit i of a word
bit(w, i) == bitv(w, i) = 1
\* u8::from(bool)
u8_from(b) == IF b THEN 1 ELSE 0

----------------------------------------------------------------------------
(* usize on the 32-bit targets, as two 16-bit limbs <<hi, lo>>. *)

\* (v as usize) of an i32 v: the 32-bit two's complement pattern of v
\* a cast that drops the sign instead of wrapping
as_usize_abs(v) == IF v >= 0 THEN <<v \div 65536, v % 65536>> ELSE <<(0 - v) \div 65536, (0 - v) % 65536>>

as_usize(v) ==
    IF v >= 0 THEN <<v \div 65536, v % 65536>>
    ELSE LET w == (v + 2147483647) + 1 IN <<32768 + (w \div 65536), w % 65536>>

\* a >= n for a usize a and a constant 0 <= n < 2^31
usize_ge(a, n) ==
    \/ a[1] > n \div 65536
    \/ a[1] = n \div 65536 /\ a[2] >= n % 65536

\* the value of a usize known to be below 2^31
usize_val(a) == a[1] * 65536 + a[2]

----------------------------------------------------------------------------
(* Address and Entry bitfields. *)

Address_new == 0
Entry_new == 0

addr_output_enable(w) == bit(w, 7)
addr_latch(w) == bit(w, 6)
addr_addr(w) == w % 32

output_enable(w) == bit(w, 7)
latch(w) == bit(w, 6)
blu2(w) == bit(w, 5)
grn2(w) == bit(w, 4)
red2(w) == bit(w, 3)
blu1(w) == bit(w, 2)
grn1(w) == bit(w, 1)
red1(w) == bit(w, 0)

\* a single-bit setter of the bitfield: bit i of the word becomes b
set_bit(w, i, b) == IF b THEN or8(w, shl8(1, i)) ELSE and8(w, not8(shl8(1, i)))

Address_set_output_enable(w, b) == set_bit(w, 7, b)
Address_set_latch(w, b) == set_bit(w, 6, b)

\* set_addr storing the value without masking it to the five bits of the field
Address_set_addr_unmasked(w, v) == or8(and8(w, not8(31)), v)

\* the setter of the field 4, 0
Address_set_addr(w, v) == or8(and8(w, not8(31)), and8(v, 31))

\* the single-bit fields of Entry and their bits
Entry_fields ==
    [set_output_enable |-> 7, set_latch |-> 6, set_blu2 |-> 5, set_grn2 |-> 4,
     set_red2 |-> 3, set_blu1 |-> 2, set_grn1 |-> 1, set_red1 |-> 0]

Entry_set(field, w, b) == set_bit(w, Entry_fields[field], b)

COLOR0_MASK == 7
COLOR1_MASK == 56

\* set_color0_bits without clearing the old colour bits
set_color0_bits_or(w, bits) == or8(w, and8(bits, 7))

\* set_color1_bits shifting by 4 and without the mask
set_color1_bits_shift4(w, bits) == or8(and8(w, not8(56)), shl8(bits, 4))

set_color0_bits(w, bits) ==
    or8(and8(w, not8(COLOR0_MASK)), and8(bits, COLOR0_MASK))

set_color1_bits(w, bits) ==
    or8(and8(w, not8(COLOR1_MASK)), and8(shl8(bits, 3), COLOR1_MASK))

----------------------------------------------------------------------------
(* Row. *)

\* the esp32-ordering feature of the build
esp32_ordering == cfg # <<>> /\ cfg.esp32_ordering

\* index ^ 2 on usize
xor2(index) == IF bitv(index, 1) = 1 THEN index - 2 ELSE index + 2

\* map_index swapping neighbours (index ^ 1) under esp32-ordering
map_index_xor1(index) ==
    IF esp32_ordering THEN (IF index % 2 = 1 THEN index - 1 ELSE index + 1) ELSE index

\* bytes are output in the order 2, 3, 0, 1 with esp32-ordering, as stored without
map_index(index) == IF esp32_ordering THEN xor2(index) ELSE index

RECURSIVE addr_words_first(_, _, _)
\* the loop of make_addr_table leaving the first word unlatched instead of the last
addr_words_first(row, addr, i) ==
    IF i < 4
    THEN LET latch_bit == IF i # 0 THEN shl8(1, 6) ELSE 0
         IN addr_words_first([row EXCEPT ![i] = or8(latch_bit, addr)], addr, i + 1)
    ELSE row

RECURSIVE addr_words_enabled(_, _, _)
\* the loop of make_addr_table setting the output-enable bit in every word
addr_words_enabled(row, addr, i) ==
    IF i < 4
    THEN LET latch_bit == IF i # 3 THEN shl8(1, 6) ELSE 0
         IN addr_words_enabled([row EXCEPT ![i] = or8(128, or8(latch_bit, addr))], addr, i + 1)
    ELSE row

RECURSIVE addr_words(_, _, _)
\* the inner loop of make_addr_table: words i..3 of the entry for addr
addr_words(row, addr, i) ==
    IF i < 4
    THEN LET latch_bit == IF i # 3 THEN shl8(1, 6) ELSE 0
         IN addr_words([row EXCEPT ![map_index(i)] = or8(latch_bit, addr)], addr, i + 1)
    ELSE row

\* make_addr_table keeping four address bits of the row index
make_addr_table_4bit ==
    [addr \in 0..31 |-> addr_words([j \in 0..3 |-> Address_new], addr % 16, 0)]

make_addr_table ==
    [addr \in 0..31 |-> addr_words([j \in 0..3 |-> Address_new], addr, 0)]

ADDR_TABLE == make_addr_table

RECURSIVE data_words_first(_, _, _)
\* the loop of make_data_template blanking the first column instead of the last
data_words_first(data, COLS, i) ==
    IF i < COLS
    THEN data_words_first([data EXCEPT ![i] = IF i = 0 THEN 0 ELSE 128], COLS, i + 1)
    ELSE data

RECURSIVE data_words(_, _, _)
\* the loop of make_data_template: words i..COLS-1
data_words(data, COLS, i) ==
    IF i < COLS
    THEN data_words([data EXCEPT ![map_index(i)] = IF i = COLS - 1 THEN 0 ELSE 128],
                    COLS, i + 1)
    ELSE data

\* make_data_template without the blanking word
make_data_template_enabled(COLS) == [j \in 0..(COLS - 1) |-> 128]

make_data_template(COLS) ==
    data_words([j \in 0..(COLS - 1) |-> Entry_new], COLS, 0)

Row_new(COLS) ==
    [data |-> [j \in 0..(COLS - 1) |-> Entry_new], address |-> [j \in 0..3 |-> Address_new]]

\* Row::format(addr: u8); the lookup ADDR_TABLE[addr as usize] in a table of 32
\* entries panics for addr > 31
Row_format_panics(addr) == addr \notin 0..31

Row_format(row, COLS, addr) ==
    [data |-> make_data_template(COLS), address |-> ADDR_TABLE[addr]]

COLOR_CLEAR_MASK == 192

\* clear_colors storing Entry::new() in every data word
Row_clear_all(row) == [row EXCEPT !.data = [j \in DOMAIN row.data |-> 0]]

\* clear_colors toggling the colour bits (^= 0b0011_1111) instead of masking them
Row_toggle_colors(row) ==
    [row EXCEPT !.data = [j \in DOMAIN row.data |->
        ((row.data[j] \div 64) * 64) + (63 - (row.data[j] % 64))]]

Row_clear_colors(row) ==
    [row EXCEPT !.data = [j \in DOMAIN row.data |-> and8(row.data[j], COLOR_CLEAR_MASK)]]

color_bits(r, g, b) == or8(or8(shl8(u8_from(b), 2), shl8(u8_from(g), 1)), u8_from(r))

\* self.data[col] panics for a col outside the array
Row_set_color_panics(row, col) == map_index(col) \notin DOMAIN row.data

Row_set_color0(row, col, r, g, b) ==
    [row EXCEPT !.data[map_index(col)] = set_color0_bits(@, color_bits(r, g, b))]

Row_set_color1(row, col, r, g, b) ==
    [row EXCEPT !.data[map_index(col)] = set_color1_bits(@, color_bits(r, g, b))]

----------------------------------------------------------------------------
(* Frame: the array rows of NROWS rows. *)

Frame_new(COLS, NROWS) == [r \in 0..(NROWS - 1) |-> Row_new(COLS)]

\* Frame::format hands (addr as u8) to Row::format
Frame_format_panics(frame) ==
    \E r \in DOMAIN frame : Row_format_panics(r % 256)

Frame_format(frame, COLS) ==
    [r \in DOMAIN frame |-> Row_format(frame[r], COLS, r % 256)]

Frame_clear_colors(frame) ==
    [r \in DOMAIN frame |-> Row_clear_colors(frame[r])]

\* the index of self.rows that Frame::set_pixel takes
Frame_row_index(NROWS, y) == IF y < NROWS THEN y ELSE y - NROWS

Frame_set_pixel_panics(frame, NROWS, y, x) ==
    \/ Frame_row_index(NROWS, y) \notin DOMAIN frame
    \/ Row_set_color_panics(frame[Frame_row_index(NROWS, y)], x)

\* Frame::set_pixel writing the colour into both halves of the word
Frame_set_pixel_both(frame, NROWS, y, x, red, green, blue) ==
    [frame EXCEPT ![Frame_row_index(NROWS, y)] =
        Row_set_color1(Row_set_color0(@, x, red, green, blue), x, red, green, blue)]

Frame_set_pixel(frame, NROWS, y, x, red, green, blue) ==
    [frame EXCEPT ![Frame_row_index(NROWS, y)] =
        IF y < NROWS
        THEN Row_set_color0(@, x, red, green, blue)
        ELSE Row_set_color1(@, x, red, green, blue)]

----------------------------------------------------------------------------
(* The builds that are modelled. *)

\* compute_rows rounding up
compute_rows_up(rows) == (rows + 1) \div 2

compute_rows(rows) == rows \div 2

compute_frame_count(bits) == (2 ^ bits) - 1

\* <<ROWS, COLS, BITS>> of the panels that are modelled
Geometries == {<<4, 2, 2>>, <<2, 3, 3>>}

PanelConfig(ROWS, COLS, BITS, skip) ==
    [ROWS |-> ROWS, COLS |-> COLS, NROWS |-> compute_rows(ROWS), BITS |-> BITS,
     FRAME_COUNT |-> compute_frame_count(BITS), skip_black |-> skip,
     esp32_ordering |-> FALSE]

\* every panel without the skip-black-pixels feature, one with it
Configs ==
    {PanelConfig(g[1], g[2], g[3], FALSE) : g \in Geometries}
    \cup {PanelConfig(4, 2, 2, TRUE)}

\* the tallest and the widest panel formatted
MaxNRows == 32
MaxCols == 4

\* panels of every height the five address bits can hold, from one column up
WideConfigs ==
    {PanelConfig(2 * n, m, 2, FALSE) : n \in 1..MaxNRows, m \in 1..MaxCols}

----------------------------------------------------------------------------
(* Colours (Rgb888) and points (i32 coordinates). *)

Rgb888(r, g, b) == [r |-> r, g |-> g, b |-> b]

BLACK == Rgb888(0, 0, 0)
RED == Rgb888(255, 0, 0)
WHITE == Rgb888(255, 255, 255)
GREY == Rgb888(128, 128, 128)
\* channels just below, on and just below a threshold
EDGE == Rgb888(63, 64, 191)

Palette == {BLACK, RED, WHITE, GREY, EDGE}

Point(x, y) == [x |-> x, y |-> y]

Pixel(p, c) == [x |-> p.x, y |-> p.y, c |-> c]

InRange(c, p) == p.x >= 0 /\ p.x < c.COLS /\ p.y >= 0 /\ p.y < c.ROWS

\* points off the panel: one coordinate negative, one just past the edge, both
OutPoints(c) ==
    {Point(-1, 0), Point(0, -1), Point(c.COLS, 0), Point(0, c.ROWS),
     Point(-1, -1), Point(c.COLS, c.ROWS)}

\* every point of the panel, and the points off it
Points(c) == {Point(x, y) : x \in 0..(c.COLS - 1), y \in 0..(c.ROWS - 1)} \cup OutPoints(c)

\* the pixels draw_iter is handed: both halves of one word and a negative coordinate
DrawPoints(c) == {Point(0, 0), Point(0, c.NROWS), Point(-1, 0)}

DrawPixels(c) == {Pixel(p, col) : p \in DrawPoints(c), col \in {BLACK, EDGE}}

RECURSIVE SeqsUpTo(_, _)
\* the sequences over S of length at most n
SeqsUpTo(S, n) ==
    IF n = 0 THEN {<<>>}
    ELSE LET shorter == SeqsUpTo(S, n - 1)
         IN shorter \cup {Append(q, e) : q \in shorter, e \in S}

----------------------------------------------------------------------------
(* DmaFrameBuffer.  An operation yields [frames, fault]. *)

Done(fb) == [frames |-> fb, fault |-> FALSE]
Panic(fb) == [frames |-> fb, fault |-> TRUE]

\* frames_on rounding up instead of truncating
frames_on_up(v, BITS) == (v + (2 ^ (8 - BITS)) - 1) \div (2 ^ (8 - BITS))

\* frames_on rounding to the nearest level instead of truncating
frames_on_rounded(v, BITS) == (v + (2 ^ (7 - BITS))) \div (2 ^ (8 - BITS))

\* 8 - BITS in u8 when the subtraction wraps
shift_of(BITS) == (8 - BITS) % 256

\* 8 - BITS underflows: a panic where overflow checks are compiled in
frames_on_overflows(c) == c.BITS > 8 /\ c.overflow_checks

\* (v as usize) >> (8 - BITS); the shift amount is taken modulo the width of usize
\* (modulo 32 here), and a u8 shifted by 8 or more is 0
frames_on(v, BITS) ==
    IF shift_of(BITS) % 32 >= 8 THEN 0 ELSE v \div (2 ^ (shift_of(BITS) % 32))

DmaFrameBuffer_format(c, fb) ==
    IF \E f \in DOMAIN fb : Frame_format_panics(fb[f])
    THEN Panic(fb)
    ELSE Done([f \in DOMAIN fb |-> Frame_format(fb[f], c.COLS)])

DmaFrameBuffer_new(c) ==
    DmaFrameBuffer_format(c, [f \in 0..(c.FRAME_COUNT - 1) |-> Frame_new(c.COLS, c.NROWS)])

\* erase clearing the first frame only
DmaFrameBuffer_erase_first(fb) ==
    Done([f \in DOMAIN fb |-> IF f = 0 THEN Frame_clear_colors(fb[f]) ELSE fb[f]])

DmaFrameBuffer_erase(fb) ==
    Done([f \in DOMAIN fb |-> Frame_clear_colors(fb[f])])

\* set_pixel_internal returning early for black whether or not the feature is on
set_pixel_internal_skips(c, fb, x, y, color) ==
    IF usize_ge(x, c.COLS) \/ usize_ge(y, c.ROWS) THEN Done(fb)
    ELSE IF color = [r |-> 0, g |-> 0, b |-> 0] THEN Done(fb)
    ELSE LET xv == usize_val(x)
             yv == usize_val(y)
         IN IF \E f \in DOMAIN fb : Frame_set_pixel_panics(fb[f], c.NROWS, yv, xv)
            THEN Panic(fb)
            ELSE Done([f \in DOMAIN fb |->
                        Frame_set_pixel(fb[f], c.NROWS, yv, xv,
                                        f < color.r \div (2 ^ (8 - c.BITS)),
                                        f < color.g \div (2 ^ (8 - c.BITS)),
                                        f < color.b \div (2 ^ (8 - c.BITS)))])

\* set_pixel_internal lighting the last frames_on frames instead of the first
set_pixel_internal_top(c, fb, x, y, color) ==
    IF usize_ge(x, c.COLS) \/ usize_ge(y, c.ROWS) THEN Done(fb)
    ELSE IF c.skip_black /\ color = [r |-> 0, g |-> 0, b |-> 0] THEN Done(fb)
    ELSE Done([f \in DOMAIN fb |->
                Frame_set_pixel(fb[f], c.NROWS, usize_val(y), usize_val(x),
                                f >= c.FRAME_COUNT - (color.r \div (2 ^ (8 - c.BITS))),
                                f >= c.FRAME_COUNT - (color.g \div (2 ^ (8 - c.BITS))),
                                f >= c.FRAME_COUNT - (color.b \div (2 ^ (8 - c.BITS))))])

\* x and y are usize
set_pixel_internal(c, fb, x, y, color) ==
    IF usize_ge(x, c.COLS) \/ usize_ge(y, c.ROWS) THEN Done(fb)
    ELSE IF c.skip_black /\ color = BLACK THEN Done(fb)
    ELSE IF frames_on_overflows(c) THEN Panic(fb)
    ELSE LET red_frames == frames_on(color.r, c.BITS)
             green_frames == frames_on(color.g, c.BITS)
             blue_frames == frames_on(color.b, c.BITS)
             xv == usize_val(x)
             yv == usize_val(y)
         IN IF \E f \in DOMAIN fb : Frame_set_pixel_panics(fb[f], c.NROWS, yv, xv)
            THEN Panic(fb)
            ELSE Done([f \in DOMAIN fb |->
                        Frame_set_pixel(fb[f], c.NROWS, yv, xv,
                                        f < red_frames, f < green_frames, f < blue_frames)])

\* p is a Point of i32 coordinates
set_pixel(c, fb, p, color) ==
    IF p.x < 0 \/ p.y < 0 THEN Done(fb)
    ELSE set_pixel_internal(c, fb, as_usize(p.x), as_usize(p.y), color)

\* one turn of the for loop of draw_iter; a panic ends the loop
draw_step(c, res, pixel) ==
    IF res.fault THEN res
    ELSE set_pixel_internal(c, res.frames, as_usize(pixel.x), as_usize(pixel.y), pixel.c)

RECURSIVE draw_loop(_, _, _)
\* the for loop of draw_iter over the pixels left (r ranges over the one value of res)
draw_loop(c, res, pixels) ==
    IF pixels = <<>> THEN res
    ELSE CHOOSE out \in {draw_loop(c, draw_step(c, r, Head(pixels)), Tail(pixels)) : r \in {res}} :
            TRUE

\* the items of a sequence in reverse order
Reversed(pixels) == [i \in 1..Len(pixels) |-> pixels[Len(pixels) + 1 - i]]

\* draw_iter consuming the iterator from its end
draw_iter_reversed(c, fb, pixels) == draw_loop(c, Done(fb), Reversed(pixels))

draw_iter(c, fb, pixels) == draw_loop(c, Done(fb), pixels)

----------------------------------------------------------------------------
(* The state machine of one buffer. *)

Op(name, pixels, before) == [op |-> name, pixels |-> pixels, before |-> before]

NOps == Len(hist)

\* the last operation (new() when none has been performed) and the frames it found
LastOp == IF hist = <<>> THEN "new" ELSE hist[Len(hist)].op
LastPixels == IF hist = <<>> THEN <<>> ELSE hist[Len(hist)].pixels
Prev == IF hist = <<>> THEN frames ELSE hist[Len(hist)].before

\* no remapper is involved
TilingIdle == tcfg = <<>> /\ vpt = <<>> /\ ppt = <<>> /\ hits = <<>>

InitOf(configs) ==
    /\ cfg \in configs
    /\ frames = DmaFrameBuffer_new(cfg).frames
    /\ fault = DmaFrameBuffer_new(cfg).fault
    /\ hist = <<>>
    /\ TilingIdle
    /\ call = <<>>
    /\ pending = <<>>

Init == InitOf(Configs)

\* an operation can be called: the program has not panicked (and the model's bound)
Running == ~fault /\ NOps < MaxOps

\* the state after the operation name(pixels) that yields res
Step(name, pixels, res) ==
    /\ frames' = res.frames
    /\ fault' = res.fault
    /\ hist' = Append(hist, Op(name, pixels, frames))
    /\ UNCHANGED <<cfg, tilevars, call, pending>>

SetPixelOf(points, colours) ==
    /\ Running
    /\ \E p \in points, color \in colours :
        \E res \in {set_pixel(cfg, frames, p, color)} :
            Step("set_pixel", <<Pixel(p, color)>>, res)

SetPixel == SetPixelOf(Points(cfg), Palette)

DrawIter ==
    /\ Running
    /\ \E pixels \in SeqsUpTo(DrawPixels(cfg), MaxPixels) :
        \E res \in {draw_iter(cfg, frames, pixels)} :
            Step("draw_iter", pixels, res)

Erase == Running /\ Step("erase", <<>>, DmaFrameBuffer_erase(frames))

Format == Running /\ Step("format", <<>>, DmaFrameBuffer_format(cfg, frames))

\* the first and the last pixel of the panel
Corners(c) == {Point(0, 0), Point(c.COLS - 1, c.ROWS - 1)}

SetCorner == SetPixelOf(Corners(cfg), {WHITE})

Next == SetPixel \/ DrawIter \/ Erase \/ Format

Spec == Init /\ [][Next]_vars

\* format() over panels of every height and width
InitFormat == InitOf(WideConfigs)

NextFormat == SetCorner \/ Erase \/ Format

FormatSpec == InitFormat /\ [][NextFormat]_vars

\* the deepest colour depth a buffer is built with: one past the eight bits of a channel
MaxBits == 9

\* a panel of one column and two rows at every depth, built with and without overflow checks
BitsConfigs ==
    {PanelConfig(2, 1, b, FALSE) @@ [overflow_checks |-> checks] :
        b \in 1..MaxBits, checks \in BOOLEAN}

InitBits == InitOf(BitsConfigs)

SetShade == SetPixelOf(Corners(cfg), {WHITE, GREY})

NextBits == SetShade \/ Erase

BitsSpec == InitBits /\ [][NextBits]_vars

\* the widest panel built with esp32-ordering, in groups of four columns
MaxQuads == 2

\* a panel of one row pair and 4, 8, .. columns, built with and without esp32-ordering
Esp32Configs ==
    {[PanelConfig(2, 4 * q, 2, FALSE) EXCEPT !.esp32_ordering = ordering] :
        q \in 1..MaxQuads, ordering \in BOOLEAN}

InitEsp32 == InitOf(Esp32Configs)

\* every pixel of the panel
PanelPoints(c) == {Point(x, y) : x \in 0..(c.COLS - 1), y \in 0..(c.ROWS - 1)}

SetPanelPixel == SetPixelOf(PanelPoints(cfg), {WHITE, RED})

NextEsp32 == SetPanelPixel \/ Erase \/ Format

Esp32Spec == InitEsp32 /\ [][NextEsp32]_vars

\* a height whose row indices no longer fit the u8 that Frame::format hands on
WrapRows == 257

\* panels around the 32 rows the address table holds, and one past the u8
TallConfigs ==
    {PanelConfig(2 * n, m, 2, FALSE) :
        n \in ((MaxNRows - 1)..(MaxNRows + 2)) \cup {WrapRows}, m \in 1..MaxCols}

InitTall == InitOf(TallConfigs)

TallSpec == InitTall /\ [][NextFormat]_vars

----------------------------------------------------------------------------
(* Tiling: ChainTopRightDown<PANEL_ROWS, PANEL_COLS, TILE_ROWS, TILE_COLS>. *)

\* the const parameters of a remapper and the consts of impl PixelRemapper
TileConfig(PANEL_ROWS, PANEL_COLS, TILE_ROWS, TILE_COLS) ==
    [PANEL_ROWS |-> PANEL_ROWS, PANEL_COLS |-> PANEL_COLS,
     TILE_ROWS |-> TILE_ROWS, TILE_COLS |-> TILE_COLS,
     VIRT_ROWS |-> PANEL_ROWS * TILE_ROWS,
     VIRT_COLS |-> PANEL_COLS * TILE_COLS,
     FB_ROWS |-> PANEL_ROWS,
     FB_COLS |-> PANEL_COLS * TILE_ROWS * TILE_COLS]

\* remap_xy forgetting to turn the rows of an upside-down panel
remap_xy_x_only(t, x, y) ==
    LET row == t.TILE_ROWS - (y \div t.PANEL_ROWS) - 1
    IN IF row % 2 = 1
       THEN Point(t.FB_COLS - x - (row * t.VIRT_COLS) - 1, y % t.PANEL_ROWS)
       ELSE Point((row * t.VIRT_COLS) + x, y % t.PANEL_ROWS)

\* the value of remap_xy in the integers: what the usize arithmetic yields where
\* no subtraction underflows, and what it yields modulo 2^width where one wraps
remap_xy(t, x, y) ==
    LET row == t.TILE_ROWS - (y \div t.PANEL_ROWS) - 1
    IN IF row % 2 = 1
       THEN Point(t.FB_COLS - x - (row * t.VIRT_COLS) - 1,
                  t.PANEL_ROWS - 1 - (y % t.PANEL_ROWS))
       ELSE Point((row * t.VIRT_COLS) + x, y % t.PANEL_ROWS)

\* the largest panel and the largest tiling of the small remappers
MaxPanelRows == 2
MaxPanelCols == 2
MaxTileRows == 4
MaxTileCols == 2

\* the largest virtual canvas that is raster scanned
MaxScan == 32

\* the remapper of the tests: 32x64 panels, three by three
TestTiling == TileConfig(32, 64, 3, 3)

TileConfigs ==
    {TileConfig(pr, pc, tr, tc) :
        pr \in 1..MaxPanelRows, pc \in 1..MaxPanelCols,
        tr \in 1..MaxTileRows, tc \in 1..MaxTileCols}
    \cup {TestTiling}

\* the points of the virtual canvas and of the physical buffer
Canvas(t) == {Point(x, y) : x \in 0..(t.VIRT_COLS - 1), y \in 0..(t.VIRT_ROWS - 1)}
Physical(t) == {Point(x, y) : x \in 0..(t.FB_COLS - 1), y \in 0..(t.FB_ROWS - 1)}

CanvasSize(t) == t.VIRT_ROWS * t.VIRT_COLS

\* the n-th point of a raster scan of the canvas, n from 0
RasterPoint(t, n) == Point(n % t.VIRT_COLS, n \div t.VIRT_COLS)

BufferIdle == cfg = <<>> /\ frames = <<>> /\ hist = <<>> /\ fault = FALSE /\ pending = <<>>

InitRemap ==
    /\ tcfg \in TileConfigs
    /\ vpt = <<>> /\ ppt = <<>> /\ hits = <<>>
    /\ BufferIdle
    /\ call = <<>>

\* the call remap_xy(x, y) at a point of the canvas; remap_xy keeps no state, so a
\* behaviour makes the call once
RemapXY ==
    /\ vpt = <<>>
    /\ \E p \in Canvas(tcfg) :
        /\ vpt' = p
        /\ ppt' = remap_xy(tcfg, p.x, p.y)
        /\ UNCHANGED <<tcfg, hits, bufvars, call>>

\* the next point of a raster scan of the whole canvas
ScanStep ==
    /\ CanvasSize(tcfg) <= MaxScan
    /\ Len(hits) < CanvasSize(tcfg)
    /\ hits' = Append(hits, remap_xy(tcfg, RasterPoint(tcfg, Len(hits)).x,
                                     RasterPoint(tcfg, Len(hits)).y))
    /\ UNCHANGED <<tcfg, vpt, ppt, bufvars, call>>

NextRemap == RemapXY \/ ScanStep

RemapSpec == InitRemap /\ [][NextRemap]_vars

----------------------------------------------------------------------------
(* TiledFrameBuffer<DmaFrameBuffer, ChainTopRightDown>. *)

\* a subtraction of remap_xy underflows: TILE_ROWS - y / PANEL_ROWS - 1, or
\* FB_COLS - x - row * VIRT_COLS - 1 for an odd row
remap_xy_overflows(t, x, y) ==
    LET row == t.TILE_ROWS - (y \div t.PANEL_ROWS) - 1
    IN \/ row < 0
       \/ row % 2 = 1 /\ t.FB_COLS - x - (row * t.VIRT_COLS) - 1 < 0

\* re_x as u16
as_u16(v) == v % 65536

\* remap_point letting a point through only when both coordinates are negative
remap_point_both(t, point) ==
    IF point.x < 0 /\ point.y < 0 THEN [point |-> point, fault |-> FALSE]
    ELSE IF t.overflow_checks /\ remap_xy_overflows(t, point.x, point.y)
    THEN [point |-> point, fault |-> TRUE]
    ELSE [point |-> Point(as_u16(remap_xy(t, point.x, point.y).x),
                          as_u16(remap_xy(t, point.x, point.y).y)),
          fault |-> FALSE]

\* remap_point: [point, fault]; with overflow checks (a debug build) an underflow
\* of remap_xy panics, without them (a release build) it wraps
remap_point(t, point) ==
    IF point.x < 0 \/ point.y < 0 THEN [point |-> point, fault |-> FALSE]
    ELSE IF t.overflow_checks /\ remap_xy_overflows(t, point.x, point.y)
    THEN [point |-> point, fault |-> TRUE]
    ELSE [point |-> Point(as_u16(remap_xy(t, point.x, point.y).x),
                          as_u16(remap_xy(t, point.x, point.y).y)),
          fault |-> FALSE]

\* TiledFrameBuffer::set_pixel
tiled_set_pixel(t, c, fb, p, color) ==
    IF remap_point(t, p).fault THEN Panic(fb)
    ELSE set_pixel(c, fb, remap_point(t, p).point, color)

\* one item of pixels.into_iter().map(M::remap) consumed by the backing draw_iter
tiled_draw_step(t, c, res, pixel) ==
    IF res.fault THEN res
    ELSE IF remap_point(t, Point(pixel.x, pixel.y)).fault THEN Panic(res.frames)
    ELSE draw_step(c, res, Pixel(remap_point(t, Point(pixel.x, pixel.y)).point, pixel.c))

RECURSIVE tiled_draw_loop(_, _, _, _)
\* (r ranges over the one value of res)
tiled_draw_loop(t, c, res, pixels) ==
    IF pixels = <<>> THEN res
    ELSE CHOOSE out \in {tiled_draw_loop(t, c, tiled_draw_step(t, c, r, Head(pixels)),
                                         Tail(pixels)) : r \in {res}} : TRUE

\* draw_iter handing the pixels to the backing buffer without M::remap
tiled_draw_iter_direct(t, c, fb, pixels) == draw_iter(c, fb, pixels)

\* TiledFrameBuffer::draw_iter
tiled_draw_iter(t, c, fb, pixels) == tiled_draw_loop(t, c, Done(fb), pixels)

\* <<PANEL_ROWS, PANEL_COLS, TILE_ROWS, TILE_COLS>> of the tiled displays modelled
TiledGeometries == {<<2, 2, 3, 1>>, <<2, 1, 2, 2>>}

\* a remapper built with or without overflow checks
TiledBuild(g, checks) ==
    TileConfig(g[1], g[2], g[3], g[4]) @@ [overflow_checks |-> checks]

TiledConfigs == {TiledBuild(g, checks) : g \in TiledGeometries, checks \in BOOLEAN}

\* the backing DmaFrameBuffer<FB_ROWS, FB_COLS, NROWS, BITS, FRAME_COUNT>
BackingConfig(t) == PanelConfig(t.FB_ROWS, t.FB_COLS, 2, FALSE)

\* points off the virtual canvas: negative, just past an edge, far past the right
\* edge, and past what a u16 holds
OffCanvas(t) ==
    {Point(-1, 0), Point(0, -1), Point(-1, t.VIRT_ROWS),
     Point(t.VIRT_COLS, 0), Point(t.VIRT_COLS, t.VIRT_ROWS - 1),
     Point(0, t.VIRT_ROWS), Point(t.VIRT_COLS, t.VIRT_ROWS),
     Point(t.FB_COLS, 0), Point(65536, 0)}

VirtualPoints(t) == Canvas(t) \cup OffCanvas(t)

\* the pixels the tiled draw_iter is handed
TiledDrawPixels(t) ==
    {Pixel(p, WHITE) :
        p \in {Point(0, 0), Point(-1, 0), Point(t.VIRT_COLS, 0), Point(0, t.VIRT_ROWS)}}

InitTiled ==
    /\ tcfg \in TiledConfigs
    /\ cfg = BackingConfig(tcfg)
    /\ frames = DmaFrameBuffer_new(cfg).frames
    /\ fault = DmaFrameBuffer_new(cfg).fault
    /\ hist = <<>>
    /\ vpt = <<>> /\ ppt = <<>> /\ hits = <<>>
    /\ call = <<>>
    /\ pending = <<>>

\* an operation through the tiling layer: vpt the virtual points it was handed
TiledStep(name, pixels, res) ==
    /\ frames' = res.frames
    /\ fault' = res.fault
    /\ hist' = Append(hist, Op(name, pixels, frames))
    /\ vpt' = [i \in DOMAIN pixels |-> Point(pixels[i].x, pixels[i].y)]
    /\ ppt' = [i \in DOMAIN pixels |->
                remap_point(tcfg, Point(pixels[i].x, pixels[i].y))]
    /\ UNCHANGED <<cfg, tcfg, hits, call, pending>>

TiledSetPixel ==
    /\ Running
    /\ \E p \in VirtualPoints(tcfg), color \in {WHITE, RED} :
        \E res \in {tiled_set_pixel(tcfg, cfg, frames, p, color)} :
            TiledStep("set_pixel", <<Pixel(p, color)>>, res)

TiledDrawIter ==
    /\ Running
    /\ \E pixels \in SeqsUpTo(TiledDrawPixels(tcfg), MaxPixels) :
        \E res \in {tiled_draw_iter(tcfg, cfg, frames, pixels)} :
            TiledStep("draw_iter", pixels, res)

\* TiledFrameBuffer::erase
TiledErase == Running /\ TiledStep("erase", <<>>, DmaFrameBuffer_erase(frames))

NextTiled == TiledSetPixel \/ TiledDrawIter \/ TiledErase

TiledSpec == InitTiled /\ [][NextTiled]_vars

----------------------------------------------------------------------------
(* The functions that only compute: frames_on and the sizing helpers. *)

compute_tiled_cols(cols, num_panels_wide, num_panels_high) ==
    cols * num_panels_wide * num_panels_high

Call(fn, args, value) == [fn |-> fn, args |-> args, value |-> value]

\* the largest argument of compute_rows and of compute_tiled_cols
MaxRows == 64
MaxTiled == 4

InitHelpers == BufferIdle /\ TilingIdle /\ call = <<>>

\* a function of no state is called once in a behaviour
NoCallYet == call = <<>>

\* DmaFrameBuffer::<_, _, _, BITS, _>::frames_on(v) for every depth and every u8
FramesOn ==
    /\ NoCallYet
    /\ \E BITS \in 1..8, v \in 0..255 :
        call' = Call("frames_on", <<v, BITS>>, frames_on(v, BITS))
    /\ UNCHANGED <<bufvars, tilevars>>

ComputeRows ==
    /\ NoCallYet
    /\ \E rows \in 0..MaxRows :
        call' = Call("compute_rows", <<rows>>, compute_rows(rows))
    /\ UNCHANGED <<bufvars, tilevars>>

ComputeFrameCount ==
    /\ NoCallYet
    /\ \E bits \in 1..8 :
        call' = Call("compute_frame_count", <<bits>>, compute_frame_count(bits))
    /\ UNCHANGED <<bufvars, tilevars>>

ComputeTiledCols ==
    /\ NoCallYet
    /\ \E cols \in 1..MaxTiled, wide \in 1..MaxTiled, high \in 1..MaxTiled :
        call' = Call("compute_tiled_cols", <<cols, wide, high>>,
                     compute_tiled_cols(cols, wide, high))
    /\ UNCHANGED <<bufvars, tilevars>>

NextHelpers == FramesOn \/ ComputeRows \/ ComputeFrameCount \/ ComputeTiledCols

HelperSpec == InitHelpers /\ [][NextHelpers]_vars

----------------------------------------------------------------------------
(* What the transport layer is handed: ReadBuffer and FrameBuffer::get_word_size. *)

\* Entry and Address are repr(transparent) over u8
size_of_Entry == 1
size_of_Address == 1

\* Row is repr(C): data, then address, no padding between bytes
size_of_Row(row) ==
    (Cardinality(DOMAIN row.data) * size_of_Entry)
    + (Cardinality(DOMAIN row.address) * size_of_Address)

size_of_Frame(frame) ==
    IF DOMAIN frame = {} THEN 0 ELSE Cardinality(DOMAIN frame) * size_of_Row(frame[0])

\* core::mem::size_of_val(&self.frames)
size_of_val(fb) ==
    IF DOMAIN fb = {} THEN 0 ELSE Cardinality(DOMAIN fb) * size_of_Frame(fb[0])

\* the size of the whole struct, which is repr(align(4))
size_of_struct(fb) == ((size_of_val(fb) + 3) \div 4) * 4

\* read_buffer reporting the size of the struct instead of the size of frames
read_buffer_struct(fb) == [ptr |-> 0, len |-> size_of_struct(fb)]

\* ReadBuffer for DmaFrameBuffer: ptr is the offset of the region in the struct
read_buffer(fb) == [ptr |-> 0, len |-> size_of_val(fb)]

\* ReadBuffer for &mut DmaFrameBuffer
read_buffer_mut(fb) == [ptr |-> 0, len |-> size_of_val(fb)]

\* ReadBuffer for TiledFrameBuffer: self.0.read_buffer()
tiled_read_buffer(fb) == read_buffer(fb)

\* FrameBuffer for DmaFrameBuffer and for &mut DmaFrameBuffer
get_word_size == "Eight"
get_word_size_mut == "Eight"

\* FrameBuffer for TiledFrameBuffer
tiled_get_word_size == "Sixteen"

\* the words of a row in memory order: data, then address (Row is repr(C))
Row_words(row) ==
    [i \in 1..(Cardinality(DOMAIN row.data) + Cardinality(DOMAIN row.address)) |->
        IF i <= Cardinality(DOMAIN row.data)
        THEN row.data[i - 1]
        ELSE row.address[i - 1 - Cardinality(DOMAIN row.data)]]

\* the words of a row in the order they leave the peripheral: the word clocked out
\* at position i is the one stored at map_index(i)
Row_stream(row) == [i \in DOMAIN Row_words(row) |-> Row_words(row)[map_index(i - 1) + 1]]

PlainBuffer == tcfg = <<>>
TiledBuffer == tcfg # <<>>

\* a call that takes &self: it leaves the buffer as it is
Reads(fn, value) ==
    /\ NoCallYet /\ ~fault
    /\ call' = Call(fn, <<>>, value)
    /\ UNCHANGED <<bufvars, tilevars>>

ReadBuffer == PlainBuffer /\ Reads("DmaFrameBuffer::read_buffer", read_buffer(frames))

ReadBufferMut ==
    PlainBuffer /\ Reads("&mut DmaFrameBuffer::read_buffer", read_buffer_mut(frames))

TiledReadBuffer ==
    TiledBuffer /\ Reads("TiledFrameBuffer::read_buffer", tiled_read_buffer(frames))

GetWordSize == PlainBuffer /\ Reads("DmaFrameBuffer::get_word_size", get_word_size)

GetWordSizeMut ==
    PlainBuffer /\ Reads("&mut DmaFrameBuffer::get_word_size", get_word_size_mut)

TiledGetWordSize ==
    TiledBuffer /\ Reads("TiledFrameBuffer::get_word_size", tiled_get_word_size)

\* a plain buffer of any height and width, or a tiled one
InitExport == InitFormat \/ InitTiled

NextExport ==
    \/ PlainBuffer /\ SetCorner
    \/ PlainBuffer /\ Erase
    \/ PlainBuffer /\ Format
    \/ ReadBuffer
    \/ ReadBufferMut
    \/ GetWordSize
    \/ GetWordSizeMut
    \/ TiledBuffer /\ TiledSetPixel
    \/ TiledBuffer /\ TiledErase
    \/ TiledReadBuffer
    \/ TiledGetWordSize

ExportSpec == InitExport /\ [][NextExport]_vars

----------------------------------------------------------------------------
(* The operations word by word, with a transport that reads the region while *)
(* they run.  A store is [f, r, kind, j, how, bits]: word j of the data or   *)
(* address array of row r of frame f, and how its new value is computed.     *)

WordStore(f, r, kind, j, how, bits) ==
    [f |-> f, r |-> r, kind |-> kind, j |-> j, how |-> how, bits |-> bits]

\* set_pixel_internal: one store per frame, in frame order
set_pixel_internal_stores(c, x, y, color) ==
    IF usize_ge(x, c.COLS) \/ usize_ge(y, c.ROWS) THEN <<>>
    ELSE IF c.skip_black /\ color = BLACK THEN <<>>
    ELSE [n \in 1..c.FRAME_COUNT |->
            WordStore(n - 1, Frame_row_index(c.NROWS, usize_val(y)), "data",
                      map_index(usize_val(x)),
                      IF usize_val(y) < c.NROWS THEN "set_color0_bits" ELSE "set_color1_bits",
                      color_bits(n - 1 < frames_on(color.r, c.BITS),
                                 n - 1 < frames_on(color.g, c.BITS),
                                 n - 1 < frames_on(color.b, c.BITS)))]

set_pixel_stores(c, p, color) ==
    IF p.x < 0 \/ p.y < 0 THEN <<>>
    ELSE set_pixel_internal_stores(c, as_usize(p.x), as_usize(p.y), color)

RECURSIVE draw_iter_stores(_, _)
draw_iter_stores(c, pixels) ==
    IF pixels = <<>> THEN <<>>
    ELSE set_pixel_internal_stores(c, as_usize(Head(pixels).x), as_usize(Head(pixels).y),
                                   Head(pixels).c)
         \o draw_iter_stores(c, Tail(pixels))

\* erase: frame by frame, row by row, entry by entry
erase_stores(c) ==
    [n \in 1..(c.FRAME_COUNT * c.NROWS * c.COLS) |->
        WordStore((n - 1) \div (c.NROWS * c.COLS), ((n - 1) \div c.COLS) % c.NROWS,
                  "data", (n - 1) % c.COLS, "clear_colors", 0)]

\* a Row::format that clears the row (Row::new()) before copying the tables in
format_row_stores_cleared(c, f, r) ==
    [n \in 1..(2 * (4 + c.COLS)) |->
        IF n <= 4 THEN WordStore(f, r, "address", n - 1, "new", 0)
        ELSE IF n <= 4 + c.COLS THEN WordStore(f, r, "data", n - 5, "new", 0)
        ELSE IF n <= 8 + c.COLS THEN WordStore(f, r, "address", n - 5 - c.COLS, "format", 0)
        ELSE WordStore(f, r, "data", n - 9 - c.COLS, "format", 0)]

\* Row::format: the four address words are copied, then the COLS data words
format_row_stores(c, f, r) ==
    [n \in 1..(4 + c.COLS) |->
        IF n <= 4 THEN WordStore(f, r, "address", n - 1, "format", 0)
        ELSE WordStore(f, r, "data", n - 5, "format", 0)]

RECURSIVE format_stores_from(_, _)
\* format: frame by frame, row by row, from row n of the FRAME_COUNT * NROWS rows on
format_stores_from(c, n) ==
    IF n >= c.FRAME_COUNT * c.NROWS THEN <<>>
    ELSE format_row_stores(c, n \div c.NROWS, n % c.NROWS) \o format_stores_from(c, n + 1)

format_stores(c) == format_stores_from(c, 0)

\* the buffer after one store
StoreWord(c, fb, s) ==
    IF s.kind = "address"
    THEN [fb EXCEPT ![s.f][s.r].address[s.j] =
            IF s.how = "new" THEN Address_new ELSE ADDR_TABLE[s.r % 256][s.j]]
    ELSE [fb EXCEPT ![s.f][s.r].data[s.j] =
            IF s.how = "set_color0_bits" THEN set_color0_bits(@, s.bits)
            ELSE IF s.how = "set_color1_bits" THEN set_color1_bits(@, s.bits)
            ELSE IF s.how = "clear_colors" THEN and8(@, COLOR_CLEAR_MASK)
            ELSE IF s.how = "new" THEN Entry_new
            ELSE make_data_template(c.COLS)[s.j]]

\* the panel the transport streams
StreamConfigs == {PanelConfig(2, 2, 2, FALSE)}

InitStream == InitOf(StreamConfigs)

\* no operation is in progress
Idle == pending = <<>>

\* an operation is entered: its stores are all still to be made
Begin(name, pixels, stores) ==
    /\ Running /\ Idle
    /\ hist' = Append(hist, Op(name, pixels, frames))
    /\ pending' = stores
    /\ UNCHANGED <<cfg, frames, fault, tilevars, call>>

BeginSetPixel ==
    \E p \in Corners(cfg), color \in {WHITE, BLACK} :
        Begin("set_pixel", <<Pixel(p, color)>>, set_pixel_stores(cfg, p, color))

\* the pixels the streamed draw_iter is handed
StreamPixels == {Pixel(Point(0, 0), GREY), Pixel(Point(1, 1), WHITE)}

BeginDrawIter ==
    \E pixels \in SeqsUpTo(StreamPixels, MaxPixels) :
        Begin("draw_iter", pixels, draw_iter_stores(cfg, pixels))

BeginErase == Begin("erase", <<>>, erase_stores(cfg))

BeginFormat == Begin("format", <<>>, format_stores(cfg))

\* the operation in progress makes its next store
StoreNext ==
    /\ ~Idle
    /\ frames' = StoreWord(cfg, frames, Head(pending))
    /\ pending' = Tail(pending)
    /\ UNCHANGED <<cfg, hist, fault, tilevars, call>>

\* the transport reads one word of the region
ReadWord ==
    /\ \E f \in DOMAIN frames : \E r \in DOMAIN frames[f] :
        \/ \E j \in DOMAIN frames[f][r].data :
            call' = Call("read", <<f, r, "data", j>>, frames[f][r].data[j])
        \/ \E j \in DOMAIN frames[f][r].address :
            call' = Call("read", <<f, r, "address", j>>, frames[f][r].address[j])
    /\ UNCHANGED <<bufvars, tilevars>>

NextStream ==
    BeginSetPixel \/ BeginDrawIter \/ BeginErase \/ BeginFormat \/ StoreNext \/ ReadWord

StreamSpec == InitStream /\ [][NextStream]_vars

----------------------------------------------------------------------------
(* The bitfield words and the address table, called on their own. *)

\* every value of a u8
Bytes == 0..255

AddressNew ==
    /\ NoCallYet
    /\ call' = Call("Address::new", <<>>, Address_new)
    /\ UNCHANGED <<bufvars, tilevars>>

EntryNew ==
    /\ NoCallYet
    /\ call' = Call("Entry::new", <<>>, Entry_new)
    /\ UNCHANGED <<bufvars, tilevars>>

AddressSetAddr ==
    /\ NoCallYet
    /\ \E w \in Bytes, v \in Bytes :
        call' = Call("Address::set_addr", <<w, v>>, Address_set_addr(w, v))
    /\ UNCHANGED <<bufvars, tilevars>>

AddressSetLatch ==
    /\ NoCallYet
    /\ \E w \in Bytes, b \in BOOLEAN :
        call' = Call("Address::set_latch", <<w, b>>, Address_set_latch(w, b))
    /\ UNCHANGED <<bufvars, tilevars>>

AddressSetOutputEnable ==
    /\ NoCallYet
    /\ \E w \in Bytes, b \in BOOLEAN :
        call' = Call("Address::set_output_enable", <<w, b>>, Address_set_output_enable(w, b))
    /\ UNCHANGED <<bufvars, tilevars>>

EntrySet ==
    /\ NoCallYet
    /\ \E field \in DOMAIN Entry_fields, w \in Bytes, b \in BOOLEAN :
        call' = Call("Entry", <<field, w, b>>, Entry_set(field, w, b))
    /\ UNCHANGED <<bufvars, tilevars>>

\* a row of the static table is read
AddrTableLookup ==
    /\ NoCallYet
    /\ \E addr \in DOMAIN ADDR_TABLE :
        call' = Call("ADDR_TABLE", <<addr>>, ADDR_TABLE[addr])
    /\ UNCHANGED <<bufvars, tilevars>>

NextBitfield ==
    \/ AddressNew \/ EntryNew \/ AddressSetAddr \/ AddressSetLatch
    \/ AddressSetOutputEnable \/ EntrySet \/ AddrTableLookup

BitfieldSpec == InitHelpers /\ [][NextBitfield]_vars

----------------------------------------------------------------------------
(* Reading a pixel back, as the tests do. *)

\* the data word of point p in frame n: row (y mod NROWS), logical column x
PixelWord(fb, c, n, p) == fb[n][p.y % c.NROWS].data[map_index(p.x)]

\* <<red, green, blue>> of point p in frame n: half 0 for y < NROWS, half 1 otherwise
PixelRGB(fb, c, n, p) ==
    IF p.y < c.NROWS
    THEN <<red1(PixelWord(fb, c, n, p)), grn1(PixelWord(fb, c, n, p)), blu1(PixelWord(fb, c, n, p))>>
    ELSE <<red2(PixelWord(fb, c, n, p)), grn2(PixelWord(fb, c, n, p)), blu2(PixelWord(fb, c, n, p))>>

brightness_step(c) == 256 \div (2 ^ c.BITS)

\* the threshold of frame n
Threshold(c, n) == (n + 1) * brightness_step(c)

\* the bits a colour shows in frame n
Expected(c, n, color) ==
    <<color.r >= Threshold(c, n), color.g >= Threshold(c, n), color.b >= Threshold(c, n)>>

FrameIndices == 0..(cfg.FRAME_COUNT - 1)

\* the point of a pixel
PointOf(pixel) == Point(pixel.x, pixel.y)

\* the only pixel of the last set_pixel
LastPixel == LastPixels[1]

\* some colour bit of some data word is set
Lit(fb) ==
    \E f \in DOMAIN fb : \E r \in DOMAIN fb[f] : \E j \in DOMAIN fb[f][r].data :
        fb[f][r].data[j] % 64 # 0

----------------------------------------------------------------------------
(* C1 *)

\* C1: after an in-range set_pixel((x,y),(r,g,b)) with skip-black-pixels off, the
\* word at row y mod NROWS, column x of every frame n shows, in half 0 for
\* y < NROWS and half 1 otherwise, red = (r >= (n+1)*step), green = (g >= (n+1)*step),
\* blue = (b >= (n+1)*step), step = 256 / 2^BITS.
C1_SetPixelThresholds ==
    (LastOp = "set_pixel" /\ ~cfg.skip_black /\ InRange(cfg, PointOf(LastPixel))) =>
        /\ ~fault
        /\ \A n \in FrameIndices :
            PixelRGB(frames, cfg, n, PointOf(LastPixel)) = Expected(cfg, n, LastPixel.c)

\* a second operation wrote EDGE (63,64,191) into half 1 at BITS = 3: frame 0 shows
\* green and blue only, frame 2 blue only, frame 5 nothing
C1_Witness ==
    /\ NOps = 2 /\ LastOp = "set_pixel" /\ ~cfg.skip_black /\ cfg.BITS = 3
    /\ InRange(cfg, PointOf(LastPixel)) /\ LastPixel.y >= cfg.NROWS /\ LastPixel.c = EDGE
    /\ PixelRGB(frames, cfg, 0, PointOf(LastPixel)) = <<TRUE, TRUE, TRUE>>
    /\ PixelRGB(frames, cfg, 1, PointOf(LastPixel)) = <<FALSE, TRUE, TRUE>>
    /\ PixelRGB(frames, cfg, 2, PointOf(LastPixel)) = <<FALSE, FALSE, TRUE>>
    /\ PixelRGB(frames, cfg, 5, PointOf(LastPixel)) = <<FALSE, FALSE, FALSE>>

----------------------------------------------------------------------------
(* C2 *)

\* the operation before the last
PrevOp == hist[Len(hist) - 1]

\* the last two operations were set_pixel at the same in-range point
OverwroteSamePoint ==
    /\ NOps >= 2 /\ ~cfg.skip_black
    /\ PrevOp.op = "set_pixel" /\ LastOp = "set_pixel"
    /\ PointOf(PrevOp.pixels[1]) = PointOf(LastPixel)
    /\ InRange(cfg, PointOf(LastPixel))

\* C2: set_pixel(p,c1); set_pixel(p,c2) leaves the buffer that set_pixel(p,c2) alone
\* leaves (skip-black-pixels off), and in no frame a bit that c2 does not light.
C2_Overwrite ==
    OverwroteSamePoint =>
        /\ frames = set_pixel(cfg, PrevOp.before, PointOf(LastPixel), LastPixel.c).frames
        /\ \A n \in FrameIndices : \A ch \in 1..3 :
            PixelRGB(frames, cfg, n, PointOf(LastPixel))[ch]
                => Expected(cfg, n, LastPixel.c)[ch]

\* white then (128,128,128) at BITS = 3: frames 0..3 lit, frames 4..6 dark again
C2_Witness ==
    /\ OverwroteSamePoint /\ cfg.BITS = 3
    /\ PrevOp.pixels[1].c = WHITE /\ LastPixel.c = GREY
    /\ \A n \in 0..3 : PixelRGB(frames, cfg, n, PointOf(LastPixel)) = <<TRUE, TRUE, TRUE>>
    /\ \A n \in 4..6 : PixelRGB(Prev, cfg, n, PointOf(LastPixel)) = <<TRUE, TRUE, TRUE>>
    /\ \A n \in 4..6 : PixelRGB(frames, cfg, n, PointOf(LastPixel)) = <<FALSE, FALSE, FALSE>>

----------------------------------------------------------------------------
(* C3 *)

\* C3: set_pixel at a point off the panel, and draw_iter of pixels off the panel
\* (negative coordinates cast to usize), complete without a fault and leave every
\* word of every frame unchanged.
C3_OutOfBoundsNoOp ==
    /\ (LastOp = "set_pixel" /\ ~InRange(cfg, PointOf(LastPixel))) =>
            (~fault /\ frames = Prev)
    /\ (LastOp = "draw_iter" /\ \A i \in DOMAIN LastPixels : ~InRange(cfg, PointOf(LastPixels[i]))) =>
            (~fault /\ frames = Prev)

\* on a lit buffer, draw_iter of a pixel with a negative coordinate
C3_Witness ==
    /\ NOps = 2 /\ Lit(Prev) /\ ~cfg.skip_black
    /\ LastOp = "draw_iter" /\ Len(LastPixels) = 1
    /\ LastPixel.x < 0 /\ LastPixel.c = EDGE

----------------------------------------------------------------------------
(* C4 *)

\* the latch and output_enable bits of every data word and every address word
ControlBits(fb) ==
    [f \in DOMAIN fb |-> [r \in DOMAIN fb[f] |->
        [data |-> [j \in DOMAIN fb[f][r].data |->
                    <<latch(fb[f][r].data[j]), output_enable(fb[f][r].data[j])>>],
         address |-> fb[f][r].address]]]

ColoursClear(fb) ==
    \A f \in DOMAIN fb : \A r \in DOMAIN fb[f] : \A j \in DOMAIN fb[f][r].data :
        /\ ~red1(fb[f][r].data[j]) /\ ~grn1(fb[f][r].data[j]) /\ ~blu1(fb[f][r].data[j])
        /\ ~red2(fb[f][r].data[j]) /\ ~grn2(fb[f][r].data[j]) /\ ~blu2(fb[f][r].data[j])

\* C4: erase() clears R1,G1,B1,R2,G2,B2 of every data word of every frame and leaves
\* the latch and output-enable bits of every data word and all address words unchanged.
C4_EraseClearsColoursOnly ==
    LastOp = "erase" =>
        /\ ~fault
        /\ ColoursClear(frames)
        /\ ControlBits(frames) = ControlBits(Prev)

\* erase() of a buffer whose blanked last column is lit in both halves
C4_Witness ==
    /\ LastOp = "erase" /\ NOps = 2
    /\ grn1(Prev[0][0].data[cfg.COLS - 1]) /\ ~output_enable(Prev[0][0].data[cfg.COLS - 1])
    /\ ~Lit(frames)

----------------------------------------------------------------------------
(* C5 *)

RowFormatted(row, r) ==
    /\ \A i \in DOMAIN row.address : addr_addr(row.address[i]) = r
    /\ Cardinality({i \in DOMAIN row.address : ~addr_latch(row.address[i])}) = 1
    /\ \A j \in DOMAIN row.data : ~latch(row.data[j])
    /\ Cardinality({j \in DOMAIN row.data : ~output_enable(row.data[j])}) = 1

Formatted(fb) ==
    \A f \in DOMAIN fb : \A r \in DOMAIN fb[f] : RowFormatted(fb[f][r], r)

\* C5: in every state reached from new() by set_pixel, draw_iter, erase and format,
\* in range or not, every row r of every frame has four address words with
\* rowAddress = r, exactly one of them with latch = false, all data words with
\* latch = false and exactly one data word with output_enable = false.
C5_FormattedInvariant ==
    /\ DOMAIN frames = 0..(cfg.FRAME_COUNT - 1)
    /\ \A f \in DOMAIN frames : DOMAIN frames[f] = 0..(cfg.NROWS - 1)
    /\ Formatted(frames)

\* a lit buffer after a two-pixel draw_iter and an out-of-range set_pixel
C5_Witness ==
    /\ NOps = 2 /\ Lit(frames)
    /\ hist[1].op = "draw_iter" /\ Len(hist[1].pixels) = 2
    /\ LastOp = "set_pixel" /\ ~InRange(cfg, PointOf(LastPixel))

----------------------------------------------------------------------------
(* C6, C7: what format() writes *)

\* format() was the last to write the control bits: new() ends in it
AfterFormat == LastOp \in {"new", "format"}

\* C6: after format() on a panel of NROWS <= 32, in every row r of every frame all
\* four address words carry rowAddress = r, the first three in transmit order have
\* latch = true and the fourth has latch = false.
C6_FormatAddressWords ==
    (AfterFormat /\ cfg.NROWS <= 32) =>
        /\ ~fault
        /\ \A f \in DOMAIN frames : \A r \in DOMAIN frames[f] :
            /\ \A i \in 0..3 : addr_addr(frames[f][r].address[map_index(i)]) = r
            /\ \A i \in 0..2 : addr_latch(frames[f][r].address[map_index(i)])
            /\ ~addr_latch(frames[f][r].address[map_index(3)])

\* format() of a lit 64-row panel: the last row of the last frame holds address 31
C6_Witness ==
    /\ LastOp = "format" /\ ~fault /\ Lit(Prev) /\ cfg.NROWS = 32
    /\ frames[2][31].address[0] = 95 /\ frames[2][31].address[2] = 95
    /\ frames[2][31].address[3] = 31

\* C7: after Row::format() on a row of COLS >= 1 columns, the data word of the last
\* logical column has output_enable = false, every other data word has
\* output_enable = true, and every data word has latch = false and colours clear.
C7_FormatDataWords ==
    (AfterFormat /\ ~fault /\ cfg.COLS >= 1) =>
        \A f \in DOMAIN frames : \A r \in DOMAIN frames[f] :
            /\ DOMAIN frames[f][r].data = 0..(cfg.COLS - 1)
            /\ \A j \in 0..(cfg.COLS - 1) :
                /\ output_enable(frames[f][r].data[map_index(j)]) = (j # cfg.COLS - 1)
                /\ ~latch(frames[f][r].data[map_index(j)])
                /\ frames[f][r].data[map_index(j)] % 64 = 0

\* format() of a three-column panel whose last column was lit
C7_Witness ==
    /\ LastOp = "format" /\ ~fault /\ cfg.COLS = 3
    /\ Prev[0][0].data[0] = 128 /\ Prev[0][0].data[2] = 56
    /\ frames[0][0].data[0] = 128 /\ frames[0][0].data[1] = 128 /\ frames[0][0].data[2] = 0

----------------------------------------------------------------------------
(* C8: draw_iter against set_pixel *)

RECURSIVE SetPixelEach(_, _, _)
\* set_pixel called on each item in sequence order (b ranges over the one value of fb)
SetPixelEach(c, fb, pixels) ==
    IF pixels = <<>> THEN fb
    ELSE CHOOSE out \in
            {SetPixelEach(c, set_pixel(c, b, PointOf(Head(pixels)), Head(pixels).c).frames,
                          Tail(pixels)) : b \in {fb}} : TRUE

\* item i is the last of the sequence at its coordinate
LastAt(pixels, i) ==
    \A j \in DOMAIN pixels : j > i => PointOf(pixels[j]) # PointOf(pixels[i])

\* the last item of the sequence at the coordinate of item i that writes: any item
\* with skip-black-pixels off, any item that is not black with it on
LastWrittenAt(c, pixels, i) ==
    /\ ~(c.skip_black /\ pixels[i].c = BLACK)
    /\ \A j \in DOMAIN pixels :
        (j > i /\ PointOf(pixels[j]) = PointOf(pixels[i]))
            => (c.skip_black /\ pixels[j].c = BLACK)

\* draw_iter returned Ok and left what set_pixel on each item in order leaves
DrawIterIsSetPixelEach ==
    /\ ~fault
    /\ frames = SetPixelEach(cfg, Prev, LastPixels)

\* C8 as amended: draw_iter over a finite pixel sequence returns Ok and leaves the
\* state that set_pixel on each item in order leaves; of the items at one in-range
\* coordinate the last one that writes (with skip-black-pixels on a black item
\* writes nothing) determines the bits of that pixel in every frame.
C8_DrawIterLastWritten ==
    LastOp = "draw_iter" =>
        /\ DrawIterIsSetPixelEach
        /\ \A i \in DOMAIN LastPixels :
            (InRange(cfg, PointOf(LastPixels[i])) /\ LastWrittenAt(cfg, LastPixels, i)) =>
                \A n \in FrameIndices :
                    PixelRGB(frames, cfg, n, PointOf(LastPixels[i]))
                        = Expected(cfg, n, LastPixels[i].c)

\* C8 as stated: draw_iter over a finite pixel sequence returns Ok and leaves the
\* state that set_pixel on each item in order leaves; when two items have the same
\* coordinate the later one determines the bits of that pixel in every frame.
C8_DrawIterLastWins ==
    LastOp = "draw_iter" =>
        /\ DrawIterIsSetPixelEach
        /\ \A i, j \in DOMAIN LastPixels :
            (/\ i < j /\ PointOf(LastPixels[i]) = PointOf(LastPixels[j])
             /\ InRange(cfg, PointOf(LastPixels[j])) /\ LastAt(LastPixels, j)) =>
                \A n \in FrameIndices :
                    PixelRGB(frames, cfg, n, PointOf(LastPixels[j]))
                        = Expected(cfg, n, LastPixels[j].c)

\* with skip-black-pixels on, draw_iter of EDGE then black at one point of half 1:
\* the pixel shows EDGE
C8_Witness ==
    /\ LastOp = "draw_iter" /\ ~fault /\ cfg.skip_black /\ ~Lit(Prev)
    /\ Len(LastPixels) = 2
    /\ LastPixels[1] = Pixel(Point(0, cfg.NROWS), EDGE)
    /\ LastPixels[2] = Pixel(Point(0, cfg.NROWS), BLACK)
    /\ PixelRGB(frames, cfg, 0, Point(0, cfg.NROWS)) = <<FALSE, TRUE, TRUE>>
    /\ PixelRGB(frames, cfg, 1, Point(0, cfg.NROWS)) = <<FALSE, FALSE, TRUE>>

----------------------------------------------------------------------------
(* C9, C10: ChainTopRightDown::remap_xy *)

\* the raster scan has covered the whole canvas
ScanDone == hits # <<>> /\ Len(hits) = CanvasSize(tcfg)

\* how often the scan produced the physical point q
HitCount(q) == Cardinality({n \in DOMAIN hits : hits[n] = q})

\* C9: for every tiling, even TILE_ROWS included, a raster scan of the virtual
\* canvas through remap_xy produces every physical coordinate (x',y') with
\* x' < FB_COLS and y' < FB_ROWS exactly once.
C9_RemapBijection ==
    ScanDone => \A q \in Physical(tcfg) : HitCount(q) = 1

\* with an odd number of tile rows the scan does produce every physical coordinate
\* exactly once
RemapBijectionOddTileRows ==
    (ScanDone /\ tcfg.TILE_ROWS % 2 = 1) => \A q \in Physical(tcfg) : HitCount(q) = 1

\* with an even number of tile rows the band of every odd row lands on the band of
\* an even row: half of the physical buffer is produced twice, half never
RemapCollidesEvenTileRows ==
    (ScanDone /\ tcfg.TILE_ROWS % 2 = 0) =>
        /\ \E q \in Physical(tcfg) : HitCount(q) = 2
        /\ \E q \in Physical(tcfg) : HitCount(q) = 0

\* the band of the chain a virtual row belongs to
ChainRow(t, y) == t.TILE_ROWS - (y \div t.PANEL_ROWS) - 1

\* what C10 states for the point (x, y)
Stated(t, x, y) ==
    IF ChainRow(t, y) % 2 = 0
    THEN Point(ChainRow(t, y) * t.VIRT_COLS + x, y % t.PANEL_ROWS)
    ELSE Point(t.FB_COLS - x - ChainRow(t, y) * t.VIRT_COLS - 1,
               t.PANEL_ROWS - 1 - (y % t.PANEL_ROWS))

\* the call at virtual point v returned physical point q
Maps(v, q) == (tcfg = TestTiling /\ vpt = v) => ppt = q

\* C10: for every in-canvas (x,y), with row = TILE_ROWS - y/PANEL_ROWS - 1, remap_xy
\* returns (row*VIRT_COLS + x, y mod PANEL_ROWS) for even row and
\* (FB_COLS - x - row*VIRT_COLS - 1, PANEL_ROWS - 1 - (y mod PANEL_ROWS)) for odd
\* row; for 32x64 panels tiled 3x3 that is (0,0)->(384,0), (0,95)->(0,31),
\* (191,95)->(191,31), (63,0)->(447,0), (64,0)->(448,0), (0,31)->(384,31),
\* (0,32)->(383,31), (100,40)->(283,23).
C10_RemapFormula ==
    /\ vpt # <<>> => ppt = Stated(tcfg, vpt.x, vpt.y)
    /\ \A n \in DOMAIN hits :
        hits[n] = Stated(tcfg, RasterPoint(tcfg, n - 1).x, RasterPoint(tcfg, n - 1).y)
    /\ Maps(Point(0, 0), Point(384, 0))
    /\ Maps(Point(0, 95), Point(0, 31))
    /\ Maps(Point(191, 95), Point(191, 31))
    /\ Maps(Point(63, 0), Point(447, 0))
    /\ Maps(Point(64, 0), Point(448, 0))
    /\ Maps(Point(0, 31), Point(384, 31))
    /\ Maps(Point(0, 32), Point(383, 31))
    /\ Maps(Point(100, 40), Point(283, 23))

\* the call remap_xy(100, 40) of the 3x3 tiling of 32x64 panels: an upside-down band
C10_Witness ==
    /\ tcfg = TestTiling /\ vpt = Point(100, 40) /\ ppt = Point(283, 23)
    /\ ChainRow(tcfg, vpt.y) = 1

----------------------------------------------------------------------------
(* C11, C12: writes through the tiling layer *)

\* the last operation was a write through the tiling layer
TiledWrite == tcfg # <<>> /\ cfg # <<>> /\ LastOp \in {"set_pixel", "draw_iter"}

\* a point with no negative coordinate that is off the virtual canvas
OffCanvasPoint(t, p) ==
    /\ p.x >= 0 /\ p.y >= 0
    /\ (p.x >= t.VIRT_COLS \/ p.y >= t.VIRT_ROWS)

NegativePoint(p) == p.x < 0 \/ p.y < 0

\* C11: set_pixel or draw_iter through a TiledFrameBuffer with ChainTopRightDown at
\* virtual points with x >= VIRT_COLS or y >= VIRT_ROWS completes without a fault
\* and leaves every word of the backing buffer unchanged.
C11_OffCanvasNoOp ==
    (TiledWrite /\ \A i \in DOMAIN vpt : OffCanvasPoint(tcfg, vpt[i])) =>
        (~fault /\ frames = Prev)

\* in a build without overflow checks an off-canvas write never faults
OffCanvasWrapsWithoutChecks ==
    (TiledWrite /\ ~tcfg.overflow_checks) => ~fault

\* in a build with overflow checks a write at y >= VIRT_ROWS panics
OffCanvasPanicsWithChecks ==
    (TiledWrite /\ tcfg.overflow_checks /\ Len(vpt) = 1
        /\ vpt[1].x >= 0 /\ vpt[1].y >= tcfg.VIRT_ROWS) => fault

\* C12: remap_point and remap return a point with x < 0 or y < 0 unchanged, without
\* evaluating remap_xy, so a write through a TiledFrameBuffer at such points reaches
\* the backing buffer with the negative coordinate and leaves the buffer unchanged.
C12_NegativePassThrough ==
    TiledWrite =>
        /\ \A i \in DOMAIN vpt :
            NegativePoint(vpt[i]) => ppt[i] = [point |-> vpt[i], fault |-> FALSE]
        /\ (\A i \in DOMAIN vpt : NegativePoint(vpt[i])) => (~fault /\ frames = Prev)

\* on a lit buffer of a build with overflow checks: set_pixel at (-1, VIRT_ROWS),
\* where remap_xy would underflow
C12_Witness ==
    /\ TiledWrite /\ NOps = 2 /\ Lit(Prev) /\ tcfg.overflow_checks
    /\ LastOp = "set_pixel" /\ vpt = <<Point(-1, tcfg.VIRT_ROWS)>>
    /\ ppt[1].point = Point(-1, tcfg.VIRT_ROWS)
    /\ ~fault /\ frames = Prev

----------------------------------------------------------------------------
(* C13: the skip-black-pixels switch *)

\* the last operation was a write on the plain buffer
PlainWrite == tcfg = <<>> /\ LastOp \in {"set_pixel", "draw_iter"}

\* the same panel built with the other setting of skip-black-pixels
OtherMode(c) == [c EXCEPT !.skip_black = ~@]

\* C13: with skip-black-pixels on, set_pixel / draw_iter of (0,0,0) at in-range
\* points leaves every frame unchanged; with it off the same write clears the three
\* colour bits of the pixel in every frame; colours other than black are written
\* identically in both modes.
C13_SkipBlackSwitch ==
    PlainWrite =>
        /\ (cfg.skip_black /\ \A i \in DOMAIN LastPixels : LastPixels[i].c = BLACK)
                => (~fault /\ frames = Prev)
        /\ (~cfg.skip_black) =>
                \A i \in DOMAIN LastPixels :
                    (/\ LastPixels[i].c = BLACK /\ InRange(cfg, PointOf(LastPixels[i]))
                     /\ LastAt(LastPixels, i)) =>
                        \A n \in FrameIndices :
                            PixelRGB(frames, cfg, n, PointOf(LastPixels[i]))
                                = <<FALSE, FALSE, FALSE>>
        /\ (\A i \in DOMAIN LastPixels : LastPixels[i].c # BLACK) =>
                /\ LastOp = "set_pixel" =>
                    frames = set_pixel(OtherMode(cfg), Prev, PointOf(LastPixel), LastPixel.c).frames
                /\ LastOp = "draw_iter" =>
                    frames = draw_iter(OtherMode(cfg), Prev, LastPixels).frames

\* with the mode on, black written over a white pixel: the pixel stays white
C13_Witness ==
    /\ PlainWrite /\ cfg.skip_black /\ NOps = 2
    /\ hist[1].op = "set_pixel" /\ hist[1].pixels[1].c = WHITE
    /\ LastOp = "set_pixel" /\ LastPixel.c = BLACK
    /\ PointOf(LastPixel) = PointOf(hist[1].pixels[1]) /\ InRange(cfg, PointOf(LastPixel))
    /\ \A n \in FrameIndices :
        PixelRGB(frames, cfg, n, PointOf(LastPixel)) = <<TRUE, TRUE, TRUE>>

----------------------------------------------------------------------------
(* C14, C18: frames_on and the sizing helpers *)

Called(fn) == call # <<>> /\ call.fn = fn

\* C14: for every BITS in 1..8 and v in 0..255, frames_on(v) = v >> (8 - BITS)
\* = floor(v / (256 / 2^BITS)); it is non-decreasing in v, frames_on(0) = 0,
\* frames_on(255) = FRAME_COUNT = 2^BITS - 1, and for every frame n,
\* n < frames_on(v) exactly when v >= (n + 1) * 256 / 2^BITS.
C14_FramesOn ==
    Called("frames_on") =>
        LET v == call.args[1]
            BITS == call.args[2]
            step == 256 \div (2 ^ BITS)
        IN /\ call.value = v \div step
           /\ \A u \in 0..v : frames_on(u, BITS) <= call.value
           /\ v = 0 => call.value = 0
           /\ v = 255 => (call.value = (2 ^ BITS) - 1
                            /\ call.value = compute_frame_count(BITS))
           /\ \A n \in 0..((2 ^ BITS) - 2) : (n < call.value) <=> (v >= (n + 1) * step)

\* frames_on(191) at BITS = 3: five frames, the threshold 192 of frame 5 is missed
C14_Witness ==
    /\ Called("frames_on") /\ call.args = <<191, 3>> /\ call.value = 5

\* C18: compute_rows(r) = floor(r / 2); compute_frame_count(b) = 2^b - 1 for b in
\* 1..8 and compute_frame_count(b + 1) = 2 * compute_frame_count(b) + 1;
\* compute_tiled_cols(c, w, h) = c * w * h, symmetric in w and h and equal to FB_COLS
\* of ChainTopRightDown<_, c, h, w>.
C18_SizingHelpers ==
    /\ Called("compute_rows") =>
        /\ 2 * call.value <= call.args[1]
        /\ call.args[1] < 2 * call.value + 2
    /\ Called("compute_frame_count") =>
        /\ call.value = (2 ^ call.args[1]) - 1
        /\ compute_frame_count(call.args[1] + 1) = 2 * call.value + 1
    /\ Called("compute_tiled_cols") =>
        /\ call.value = call.args[1] * call.args[2] * call.args[3]
        /\ call.value = compute_tiled_cols(call.args[1], call.args[3], call.args[2])
        /\ call.value = TileConfig(1, call.args[1], call.args[3], call.args[2]).FB_COLS

\* compute_rows of an odd number of rows
C18_Witness ==
    /\ Called("compute_rows") /\ call.args = <<63>> /\ call.value = 31

----------------------------------------------------------------------------
(* C15, C20: erase against erase, format and new *)

\* the last operation was on the plain buffer and is name
PlainOp(name) == tcfg = <<>> /\ cfg # <<>> /\ LastOp = name

\* C15: erase() is idempotent: erase; erase leaves the buffer erase leaves; and
\* format(); erase() leaves all colour bits clear with the control and address bits
\* format() alone produces.
C15_EraseIdempotent ==
    /\ (PlainOp("erase") /\ NOps >= 2 /\ PrevOp.op = "erase") => (~fault /\ frames = Prev)
    /\ PlainOp("erase") => DmaFrameBuffer_erase(frames) = Done(frames)
    /\ (PlainOp("erase") /\ NOps >= 2 /\ PrevOp.op = "format") =>
        (ColoursClear(frames) /\ ControlBits(frames) = ControlBits(Prev))
    /\ PlainOp("format") =>
        /\ ColoursClear(DmaFrameBuffer_erase(frames).frames)
        /\ ControlBits(DmaFrameBuffer_erase(frames).frames) = ControlBits(frames)

\* erase() of a buffer lit by a white set_pixel: one more erase() changes nothing
C15_Witness ==
    /\ PlainOp("erase") /\ NOps = 2 /\ hist[1].op = "set_pixel"
    /\ Lit(Prev) /\ ~Lit(frames)
    /\ DmaFrameBuffer_erase(frames).frames = frames

\* C20: from every state reached from new() by set_pixel, draw_iter, erase and
\* format, erase() yields the buffer new() returns, word for word.
C20_EraseRestoresNew ==
    PlainOp("erase") => (~fault /\ frames = DmaFrameBuffer_new(cfg).frames)

\* erase() after a draw_iter of two pixels that lit the buffer
C20_Witness ==
    /\ PlainOp("erase") /\ NOps = 2
    /\ hist[1].op = "draw_iter" /\ Len(hist[1].pixels) = 2
    /\ Lit(Prev) /\ Prev # DmaFrameBuffer_new(cfg).frames
    /\ frames = DmaFrameBuffer_new(cfg).frames

----------------------------------------------------------------------------
(* C16, C17: the exported region and its word size *)

\* FRAME_COUNT * NROWS * (COLS + 4) bytes from the first frame on
FramesRegion(c) == [ptr |-> 0, len |-> c.FRAME_COUNT * c.NROWS * (c.COLS + 4)]

\* C16: read_buffer, on the buffer and on &mut buffer, reports a region that starts
\* at the first frame and is exactly FRAME_COUNT * NROWS * (COLS + 4) bytes long,
\* whatever the pixels hold, and TiledFrameBuffer::read_buffer returns exactly the
\* region of its backing buffer.
C16_ReadBufferRegion ==
    /\ Called("DmaFrameBuffer::read_buffer") => call.value = FramesRegion(cfg)
    /\ Called("&mut DmaFrameBuffer::read_buffer") => call.value = FramesRegion(cfg)
    /\ Called("TiledFrameBuffer::read_buffer") =>
        /\ call.value = read_buffer(frames)
        /\ call.value = FramesRegion(cfg)

\* read_buffer of a lit 3-column panel of one row pair: 3 frames of 7 bytes
C16_Witness ==
    /\ Called("&mut DmaFrameBuffer::read_buffer") /\ hist # <<>> /\ Lit(frames)
    /\ cfg.COLS = 3 /\ cfg.NROWS = 1 /\ cfg.FRAME_COUNT = 3
    /\ call.value = [ptr |-> 0, len |-> 21]

\* C17: get_word_size is Eight for the latched DmaFrameBuffer and its &mut
\* reference, and a TiledFrameBuffer reports the word size of the buffer it wraps
\* (Eight when that is a latched DmaFrameBuffer).
C17_WordSizeMatches ==
    /\ Called("DmaFrameBuffer::get_word_size") => call.value = "Eight"
    /\ Called("&mut DmaFrameBuffer::get_word_size") => call.value = "Eight"
    /\ Called("TiledFrameBuffer::get_word_size") =>
        (call.value = get_word_size /\ call.value = "Eight")

\* the plain buffer and its &mut reference do report Eight
PlainWordSizeEight ==
    (Called("DmaFrameBuffer::get_word_size") \/ Called("&mut DmaFrameBuffer::get_word_size"))
        => call.value = "Eight"

\* the tiled buffer reports Sixteen over a backing buffer of 8-bit words
TiledWordSizeSixteen ==
    Called("TiledFrameBuffer::get_word_size") => call.value = "Sixteen"

----------------------------------------------------------------------------
(* C19: a colour depth of more than eight bits *)

\* C19: a DmaFrameBuffer configured with BITS > 8 is rejected at compile time or by
\* an assertion in new(): no buffer of such a configuration exists unless new() has
\* panicked, and so no set_pixel ever faults on 8 - BITS.
C19_BitsRejected == cfg.BITS > 8 => (fault /\ hist = <<>>)

\* new() returns a formatted buffer at a depth of nine bits
NineBitsConstructed ==
    (cfg.BITS > 8 /\ hist = <<>>) => (~fault /\ frames = DmaFrameBuffer_new(cfg).frames)

\* with overflow checks, the first in-range set_pixel at nine bits panics in frames_on
NineBitsSetPixelPanics ==
    (cfg.BITS > 8 /\ cfg.overflow_checks /\ LastOp = "set_pixel") => fault

\* without them the shift wraps and set_pixel leaves every pixel dark
NineBitsSetPixelDark ==
    (cfg.BITS > 8 /\ ~cfg.overflow_checks /\ LastOp = "set_pixel") =>
        (~fault /\ ~Lit(frames))

\* up to eight bits no operation faults
EightBitsNoFault == cfg.BITS <= 8 => ~fault

----------------------------------------------------------------------------
(* C21: the frame effect of set_pixel *)

\* the colour bits of the half of a data word that holds row y
HalfMask(c, y) == IF y < c.NROWS THEN COLOR0_MASK ELSE COLOR1_MASK

\* the last operation was set_pixel at a point of the panel
SetPixelInRange == LastOp = "set_pixel" /\ InRange(cfg, PointOf(LastPixel))

\* C21: an in-range set_pixel((x,y),c) changes, in each frame, only the three colour
\* bits of the addressed half of the data word at row y mod NROWS, column x: the
\* other half of that word, its latch and output_enable bits, every other data word
\* and every address word are as before.
C21_SetPixelFrameEffect ==
    SetPixelInRange =>
        /\ ~fault
        /\ \A f \in DOMAIN frames : \A r \in DOMAIN frames[f] :
            /\ frames[f][r].address = Prev[f][r].address
            /\ \A j \in DOMAIN frames[f][r].data :
                IF r = LastPixel.y % cfg.NROWS /\ j = map_index(LastPixel.x)
                THEN and8(frames[f][r].data[j], not8(HalfMask(cfg, LastPixel.y)))
                        = and8(Prev[f][r].data[j], not8(HalfMask(cfg, LastPixel.y)))
                ELSE frames[f][r].data[j] = Prev[f][r].data[j]

\* red written into half 1 of a word whose half 0 is white: in frame 0 the colour
\* bits go from 000 111 to 001 111, the control bits stay
C21_Witness ==
    /\ SetPixelInRange /\ NOps = 2 /\ LastPixel.y >= cfg.NROWS /\ LastPixel.c = RED
    /\ Prev[0][LastPixel.y % cfg.NROWS].data[map_index(LastPixel.x)] % 64 = 7
    /\ frames[0][LastPixel.y % cfg.NROWS].data[map_index(LastPixel.x)] % 64 = 15
    /\ frames[0][LastPixel.y % cfg.NROWS].data[map_index(LastPixel.x)] \div 64
        = Prev[0][LastPixel.y % cfg.NROWS].data[map_index(LastPixel.x)] \div 64

----------------------------------------------------------------------------
(* C22: the tiling layer is a coordinate translation *)

\* the last operation went through the tiling layer
TiledOp == tcfg # <<>> /\ hist # <<>>

\* the pixels of the last operation as the remapper returned them, one by one
Remapped == [i \in DOMAIN LastPixels |-> Pixel(ppt[i].point, LastPixels[i].c)]

\* the pixels ahead of the first one whose remapping panicked
RemappedAhead ==
    SubSeq(Remapped, 1, (CHOOSE k \in DOMAIN ppt :
                            ppt[k].fault /\ \A i \in 1..(k - 1) : ~ppt[i].fault) - 1)

RemapPanicked == \E i \in DOMAIN ppt : ppt[i].fault

\* C22: through a TiledFrameBuffer, set_pixel(p,c) leaves the backing buffer as
\* backing.set_pixel(remap_point(p),c) does, draw_iter(pixels) as backing.draw_iter
\* of the pixels remapped one by one in the same order does, and erase() as
\* backing.erase() does; a panic of the remapper ends the operation where it occurs.
C22_TiledIsTranslation ==
    TiledOp =>
        /\ (LastOp = "set_pixel" /\ ~RemapPanicked) =>
            /\ frames = set_pixel(cfg, Prev, ppt[1].point, LastPixel.c).frames
            /\ fault = set_pixel(cfg, Prev, ppt[1].point, LastPixel.c).fault
        /\ (LastOp = "draw_iter" /\ ~RemapPanicked) =>
            /\ frames = draw_iter(cfg, Prev, Remapped).frames
            /\ fault = draw_iter(cfg, Prev, Remapped).fault
        /\ (LastOp = "set_pixel" /\ RemapPanicked) => (fault /\ frames = Prev)
        /\ (LastOp = "draw_iter" /\ RemapPanicked) =>
            (fault /\ frames = draw_iter(cfg, Prev, RemappedAhead).frames)
        /\ LastOp = "erase" =>
            /\ frames = DmaFrameBuffer_erase(Prev).frames
            /\ fault = DmaFrameBuffer_erase(Prev).fault

\* draw_iter of (0,0) and (-1,0): the first pixel is moved by the remapper and lit,
\* the second reaches the backing buffer as it is
C22_Witness ==
    /\ TiledOp /\ LastOp = "draw_iter" /\ Len(LastPixels) = 2 /\ ~fault
    /\ vpt = <<Point(0, 0), Point(-1, 0)>>
    /\ ppt[1].point # vpt[1] /\ ppt[2].point = vpt[2]
    /\ ~Lit(Prev) /\ Lit(frames)
    /\ PixelWord(frames, cfg, 0, ppt[1].point) % 64 # 0

----------------------------------------------------------------------------
(* C23: blank, set address, latch, un-blank *)

\* the position in the stream of a row of its first word with latch set (0 if none)
FirstLatch(s) ==
    IF \E i \in DOMAIN s : latch(s[i])
    THEN CHOOSE k \in DOMAIN s : latch(s[k]) /\ \A i \in 1..(k - 1) : ~latch(s[i])
    ELSE 0

\* the stream of one row keeps the order blank, address with latch, latch released
BlankBeforeLatch(row) ==
    LET s == Row_stream(row)
        n == Cardinality(DOMAIN row.data)
    IN /\ Len(s) = n + 4
       /\ \A i \in 1..n : s[i] = row.data[i - 1]
       /\ \A i \in 1..4 : s[n + i] = row.address[i - 1]
       /\ \A i \in DOMAIN s : ~(latch(s[i]) /\ output_enable(s[i]))
       /\ FirstLatch(s) = n + 1
       /\ ~output_enable(s[FirstLatch(s) - 1])
       /\ \A i \in 1..(n - 1) : output_enable(s[i])
       /\ ~latch(s[Len(s)])

\* C23: in every reachable state each row is exported as its COLS data words
\* followed by its 4 address words; in transmit order no word has latch and
\* output_enable both set, the word just before the first latched word of a row is
\* that row's one data word with output_enable clear, and latch is clear again on
\* the last address word, before the data of the next row.
C23_BlankBeforeLatch ==
    ~fault => \A f \in DOMAIN frames : \A r \in DOMAIN frames[f] :
                BlankBeforeLatch(frames[f][r])

\* the last row of the tallest and widest panel with its last pixel white: three
\* enabled data words, the blanking word carrying the pixel, three latched address
\* words and the unlatched one
C23_Witness ==
    /\ hist # <<>> /\ ~fault /\ cfg.NROWS = 32 /\ cfg.COLS = 4
    /\ Row_stream(frames[0][31]) = <<128, 128, 128, 56, 95, 95, 95, 31>>

----------------------------------------------------------------------------
(* C24: the column permutation of esp32-ordering *)

\* i XOR 2 written out: within each group of four, 0->2, 1->3, 2->0, 3->1
Swapped(i) == ((i \div 4) * 4) + ((i + 2) % 4)

\* where logical column i is stored in this build
StoredAt(i) == IF cfg.esp32_ordering THEN Swapped(i) ELSE i

Columns == 0..(cfg.COLS - 1)

\* C24: with esp32-ordering map_index(i) = i XOR 2 (0->2, 1->3, 2->0, 3->1, 4->6,
\* 5->7), an involution and, for COLS a multiple of 4, a bijection on the columns,
\* so no two logical columns share a data word; the one word with output_enable
\* clear is at map_index(COLS-1) and set_pixel at logical column x is read back at
\* map_index(x); without the feature map_index is the identity.
C24_ColumnPermutation ==
    /\ \A i \in Columns : map_index(i) = StoredAt(i) /\ map_index(map_index(i)) = i
    /\ cfg.esp32_ordering =>
        /\ cfg.COLS % 4 = 0
        /\ {map_index(i) : i \in Columns} = Columns
        /\ \A i, j \in Columns : i # j => map_index(i) # map_index(j)
        /\ <<map_index(0), map_index(1), map_index(2), map_index(3)>> = <<2, 3, 0, 1>>
        /\ cfg.COLS > 4 => <<map_index(4), map_index(5)>> = <<6, 7>>
    /\ ~cfg.esp32_ordering => \A i \in 0..7 : map_index(i) = i
    /\ \A f \in DOMAIN frames : \A r \in DOMAIN frames[f] :
        {j \in DOMAIN frames[f][r].data : ~output_enable(frames[f][r].data[j])}
            = {StoredAt(cfg.COLS - 1)}
    /\ SetPixelInRange =>
        \A n \in FrameIndices :
            LET w == frames[n][LastPixel.y % cfg.NROWS].data[StoredAt(LastPixel.x)]
            IN (IF LastPixel.y < cfg.NROWS
                THEN <<red1(w), grn1(w), blu1(w)>>
                ELSE <<red2(w), grn2(w), blu2(w)>>) = Expected(cfg, n, LastPixel.c)

\* esp32-ordering, eight columns: white at logical column 5 is stored in word 7,
\* and word 5 is the blanking word of logical column 7
C24_Witness ==
    /\ cfg.esp32_ordering /\ cfg.COLS = 8 /\ NOps = 1
    /\ SetPixelInRange /\ LastPixel.x = 5 /\ LastPixel.y = 0 /\ LastPixel.c = WHITE
    /\ frames[0][0].data[7] = 135
    /\ frames[0][0].data[5] = 0

----------------------------------------------------------------------------
(* C25: the thermometer code of a channel *)

\* the items of an operation that store a value at point p: those at p, all of them
\* with skip-black-pixels off, those that are not black with it on
StoresAt(c, pixels, p) ==
    {j \in DOMAIN pixels :
        PointOf(pixels[j]) = p /\ ~(c.skip_black /\ pixels[j].c = BLACK)}

\* the largest member of a non-empty set of positions
Latest(S) == CHOOSE j \in S : \A i \in S : i <= j

RECURSIVE LastValue(_, _, _)
\* the last value written to p by the operations h since the last erase or format;
\* black, which lights no frame, if there is none
LastValue(c, h, p) ==
    IF h = <<>> THEN BLACK
    ELSE IF h[Len(h)].op \in {"erase", "format"} THEN BLACK
    ELSE IF StoresAt(c, h[Len(h)].pixels, p) # {}
    THEN h[Len(h)].pixels[Latest(StoresAt(c, h[Len(h)].pixels, p))].c
    ELSE LastValue(c, SubSeq(h, 1, Len(h) - 1), p)

\* the frames in which channel ch (1 red, 2 green, 3 blue) of point p is set
FramesLit(p, ch) == {n \in FrameIndices : PixelRGB(frames, cfg, n, p)[ch]}

\* a colour as <<r, g, b>>
Channels(color) == <<color.r, color.g, color.b>>

\* C25: in every state reachable from new() by set_pixel, draw_iter, erase and
\* format, for every pixel and every channel the frames in which the channel bit
\* is set are the prefix 0..k-1 of the frame indices, k being frames_on of the last
\* value written to that pixel since the last erase/format, or 0 if there is none.
C25_Thermometer ==
    ~fault =>
        \A p \in PanelPoints(cfg) : \A ch \in 1..3 :
            /\ \A n \in FramesLit(p, ch) : \A m \in 0..n : m \in FramesLit(p, ch)
            /\ FramesLit(p, ch)
                = 0..(frames_on(Channels(LastValue(cfg, hist, p))[ch], cfg.BITS) - 1)

\* white, then (63,64,191) at one pixel at BITS = 3: red in frame 0 only, green in
\* frames 0 and 1, blue in frames 0..4 of the seven
C25_Witness ==
    /\ NOps = 2 /\ cfg.BITS = 3 /\ ~fault
    /\ hist[1].op = "set_pixel" /\ hist[1].pixels[1].c = WHITE
    /\ hist[2].op = "set_pixel" /\ hist[2].pixels[1].c = EDGE
    /\ PointOf(hist[1].pixels[1]) = PointOf(hist[2].pixels[1])
    /\ InRange(cfg, PointOf(LastPixel))
    /\ FramesLit(PointOf(LastPixel), 1) = {0}
    /\ FramesLit(PointOf(LastPixel), 2) = {0, 1}
    /\ FramesLit(PointOf(LastPixel), 3) = {0, 1, 2, 3, 4}

----------------------------------------------------------------------------
(* C26: what a transport reads while the buffer is written *)

\* the word at the place of the last read in a freshly formatted buffer
FormattedWord ==
    IF call.args[3] = "address"
    THEN DmaFrameBuffer_new(cfg).frames[call.args[1]][call.args[2]].address[call.args[4]]
    ELSE DmaFrameBuffer_new(cfg).frames[call.args[1]][call.args[2]].data[call.args[4]]

\* C26: a transport reading words one at a time, interleaved arbitrarily with
\* set_pixel, draw_iter, erase or format running on a formatted buffer, observes in
\* every word the control bits of the formatted state: address words unchanged,
\* data words with their latch and output_enable bits; only colour bits are seen
\* in flux (a pixel may be seen updated in some frames and not yet in others).
C26_ReaderSeesControlBits ==
    Called("read") =>
        /\ call.args[3] = "address" => call.value = FormattedWord
        /\ call.args[3] = "data" => call.value \div 64 = FormattedWord \div 64

\* once all stores of an operation are made the buffer is what the operation leaves
StoresMakeOperation ==
    (Idle /\ hist # <<>>) =>
        /\ LastOp = "set_pixel" =>
            frames = set_pixel(cfg, Prev, PointOf(LastPixel), LastPixel.c).frames
        /\ LastOp = "draw_iter" => frames = draw_iter(cfg, Prev, LastPixels).frames
        /\ LastOp = "erase" => frames = DmaFrameBuffer_erase(Prev).frames
        /\ LastOp = "format" => frames = DmaFrameBuffer_format(cfg, Prev).frames

\* a read in the middle of set_pixel(white) on a lit buffer: the pixel is already
\* white in frame 0 and not yet in the last frame, and the word read is a data
\* word of frame 0 carrying the new colour
C26_Witness ==
    /\ Called("read") /\ NOps = 2 /\ LastOp = "set_pixel" /\ ~Idle
    /\ LastPixel = Pixel(Point(0, 0), WHITE) /\ Len(pending) = 1
    /\ call.args = <<0, 0, "data", map_index(0)>>
    /\ call.value = 135
    /\ frames[0][0].data[map_index(0)] = 135
    /\ frames[2][0].data[map_index(0)] = 128

----------------------------------------------------------------------------
(* C27: rows past the address table *)

\* the first row at which Frame::format panics
FirstPanic(c) ==
    CHOOSE r \in 0..(c.NROWS - 1) :
        /\ Row_format_panics(r % 256)
        /\ \A q \in 0..(r - 1) : ~Row_format_panics(q % 256)

\* C27: no reachable buffer holds a row whose address words carry a value other
\* than the index of the row; in a build with NROWS > 32, format(), and so new(),
\* faults on the address-table lookup at row index 32 instead of storing the index
\* truncated to five bits.
C27_NoTruncatedAddress ==
    /\ ~fault =>
        /\ cfg.NROWS <= 32
        /\ \A f \in DOMAIN frames : \A r \in DOMAIN frames[f] :
            \A i \in DOMAIN frames[f][r].address : addr_addr(frames[f][r].address[i]) = r
    /\ cfg.NROWS > 32 => (fault /\ hist = <<>> /\ FirstPanic(cfg) = 32)

\* new() of a panel of 33 row pairs has panicked at row 32
C27_Witness ==
    /\ cfg.NROWS = 33 /\ fault /\ hist = <<>>
    /\ Row_format_panics(32) /\ ~Row_format_panics(31)
    /\ FirstPanic(cfg) = 32

\* format() of a lit panel of 32 row pairs: the last row carries address 31
TallestFormatted ==
    (cfg.NROWS = 32 /\ LastOp = "format") =>
        (~fault /\ frames[0][31].address[3] = 31 /\ frames[0][31].address[0] = 95)

----------------------------------------------------------------------------
(* C28: remapped coordinates past what a u16 holds *)

\* the last operation was set_pixel through the tiling layer at a point without a
\* negative coordinate whose remap_xy result, computed without underflow, exceeds
\* 65535 in x or in y
WideRemap ==
    /\ TiledOp /\ LastOp = "set_pixel"
    /\ vpt[1].x >= 0 /\ vpt[1].y >= 0
    /\ ~remap_xy_overflows(tcfg, vpt[1].x, vpt[1].y)
    /\ \/ remap_xy(tcfg, vpt[1].x, vpt[1].y).x > 65535
       \/ remap_xy(tcfg, vpt[1].x, vpt[1].y).y > 65535

\* C28: for every non-negative point whose remap_xy result exceeds 65535 in x or y,
\* the point remap_point returns lies outside the physical buffer (x >= FB_COLS or
\* y >= FB_ROWS), so the write is dropped and lands on no pixel of the panel.
C28_WideRemapDropped ==
    WideRemap =>
        /\ (ppt[1].point.x >= tcfg.FB_COLS \/ ppt[1].point.y >= tcfg.FB_ROWS)
        /\ frames = Prev

\* what the code does: the result is taken modulo 65536 and written where it lands
WideRemapWraps ==
    WideRemap =>
        /\ ~fault
        /\ ppt[1].point = Point(remap_xy(tcfg, vpt[1].x, vpt[1].y).x % 65536,
                                remap_xy(tcfg, vpt[1].x, vpt[1].y).y % 65536)
        /\ frames = set_pixel(cfg, Prev, ppt[1].point, LastPixel.c).frames

\* set_pixel((65536, 0), white) on the three-panel chain lights physical (4, 0)
WideRemapLands ==
    /\ WideRemap /\ vpt[1] = Point(65536, 0) /\ tcfg.TILE_ROWS = 3
    /\ ppt[1].point = Point(4, 0) /\ ~Lit(Prev) /\ Lit(frames)

----------------------------------------------------------------------------
(* C29: the output-enable bit of the address words *)

\* C29 as amended: after format(), the outputEnable bit (bit 7) of every address
\* word of every row is clear.
C29_AddressOutputEnableClear ==
    (AfterFormat /\ ~fault) =>
        \A f \in DOMAIN frames : \A r \in DOMAIN frames[f] :
            \A i \in DOMAIN frames[f][r].address :
                ~addr_output_enable(frames[f][r].address[i])

\* C29 as stated: after format(), the outputEnable/pwmEnable bit (bit 7) of every
\* address word of every row is set.
C29_AddressOutputEnableSet ==
    (AfterFormat /\ ~fault) =>
        \A f \in DOMAIN frames : \A r \in DOMAIN frames[f] :
            \A i \in DOMAIN frames[f][r].address :
                addr_output_enable(frames[f][r].address[i])

\* format() of a lit panel of 16 row pairs: the address words of the last row are
\* 0100_1111 three times and 0000_1111
C29_Witness ==
    /\ LastOp = "format" /\ ~fault /\ Lit(Prev) /\ cfg.NROWS = 16
    /\ \A f \in DOMAIN frames :
        frames[f][15].address = [i \in 0..3 |-> IF i = 3 THEN 15 ELSE 79]

----------------------------------------------------------------------------
(* C30: the fields of a word do not disturb each other *)

\* the words v and w agree in every bit but those of the set S
SameOutside(v, w, S) == \A i \in (0..7) \ S : bit(v, i) = bit(w, i)

\* the word that set_latch and set_addr build for word i of the table row of addr
BuiltWord(addr, i) == Address_set_addr(Address_set_latch(Address_new, i # 3), addr)

\* C30: a new Address or Entry word is 0; on Address, set_addr changes only bits
\* 4..0 (to the value modulo 32) and set_latch only bit 6; on Entry each of
\* set_red1/grn1/blu1/red2/grn2/blu2/latch/output_enable changes only its own bit
\* (0,1,2,3,4,5,6,7), latch and output_enable being bits 6 and 7 in both kinds of
\* word; the ADDR_TABLE entry of every address 0..31 is the word built by
\* set_latch and set_addr.
C30_FieldIsolation ==
    /\ Called("Address::new") => call.value = 0
    /\ Called("Entry::new") => call.value = 0
    /\ Called("Address::set_addr") =>
        /\ call.value % 32 = call.args[2] % 32
        /\ call.value \div 32 = call.args[1] \div 32
        /\ addr_addr(call.value) = call.args[2] % 32
    /\ Called("Address::set_latch") =>
        /\ bit(call.value, 6) = call.args[2]
        /\ addr_latch(call.value) = call.args[2]
        /\ SameOutside(call.value, call.args[1], {6})
    /\ Called("Address::set_output_enable") =>
        /\ bit(call.value, 7) = call.args[2]
        /\ addr_output_enable(call.value) = call.args[2]
        /\ SameOutside(call.value, call.args[1], {7})
    /\ Called("Entry") =>
        LET k == CHOOSE i \in 0..7 :
                    call.args[1] = <<"set_red1", "set_grn1", "set_blu1", "set_red2",
                                     "set_grn2", "set_blu2", "set_latch",
                                     "set_output_enable">>[i + 1]
        IN /\ bit(call.value, k) = call.args[3]
           /\ SameOutside(call.value, call.args[2], {k})
           /\ <<red1(call.value), grn1(call.value), blu1(call.value), red2(call.value),
                grn2(call.value), blu2(call.value), latch(call.value),
                output_enable(call.value)>>[k + 1] = call.args[3]
    /\ Called("ADDR_TABLE") =>
        /\ call.args[1] \in 0..31
        /\ \A i \in 0..3 : call.value[map_index(i)] = BuiltWord(call.args[1], i)

\* set_addr(63) on a word with latch and output_enable set: 1100_0000 becomes
\* 1101_1111
C30_Witness ==
    /\ Called("Address::set_addr") /\ call.args = <<192, 63>> /\ call.value = 223

====
